---- MODULE Spec2Model ----
(***************************************************************************)
(* Target lifecycle and hit resolution of ss-credits (PlayerTargets).      *)
(*                                                                         *)
(* The repository holds three revisions of the PlayerTargets class:        *)
(*   "colour" : src/src/game/Scene.ts 226-538 (proximity hit, name popups) *)
(*   "soul"   : src/src/game/Scene.ts 572-860 (ray hit, avatar souls)      *)
(*   "plain"  : src/unnamed/part_001  24-171  (ray hit, no feedback)       *)
(* The variable `variant` selects the revision a behaviour runs.           *)
(*                                                                         *)
(* Units: time is counted in tenths of a second, lengths in tenths of a    *)
(* world unit, velocities in world units per second, so that               *)
(* position += velocity * delta is exact integer arithmetic.               *)
(***************************************************************************)
EXTENDS Integers, Sequences, FiniteSets, TLC

VARIABLES
    variant,      \* which revision of PlayerTargets runs
    configured,   \* setPlayers has been called (Game.init)
    players,      \* PlayerTargets.players
    targets,      \* PlayerTargets.targets
    namePopups,   \* PlayerTargets.namePopups / souls
    avatarCache,  \* PlayerTargets.avatarCache : url -> image (0 = no entry)
    pending,      \* url -> number of Image requests started and not yet settled
    preloading,   \* url -> how many of those preloadAvatars is waiting for
    ready,        \* preloadAvatars has passed its await Promise.allSettled
    spawnTimer,   \* PlayerTargets.spawnTimer
    playerIndex,  \* PlayerTargets.playerIndex
    gameTime,     \* PlayerTargets.gameTime (session clock)
    scene,        \* target and popup sprites held by game.scene.scene
    updates,      \* number of update() calls made so far
    last,         \* the last PlayerTargets call made and what it returned
    now,          \* performance.now(), in milliseconds
    lastTime,     \* Ticker.lastTime, in milliseconds
    isRunning,    \* Ticker.isRunning
    rafs,         \* requestAnimationFrame(this.tick) requests not yet run
    callbacks,    \* Ticker.callbacks
    lastTick,     \* what the last tick() that reached its loop did
    ticks,        \* number of tick() calls made so far
    score,        \* Game.score
    streak,       \* Game.streak
    isPlaying,    \* Game.isPlaying
    projectiles,  \* Game.projectiles (colour revision)
    progress,     \* Rail.progress, in RailDuration-ths of the run
    isFinished,   \* Rail.isFinished
    steps,        \* number of Game.update() calls made so far
    glast,        \* the last Game handler run and what it did
    fetch         \* the fetchTopPlayers call Game.init makes, and its result

tickerVars == <<now, lastTime, isRunning, rafs, callbacks, lastTick, ticks>>

gameVars == <<score, streak, isPlaying, projectiles, progress, isFinished, steps, glast,
              fetch>>

vars == <<variant, configured, players, targets, namePopups, avatarCache,
          pending, preloading, ready, spawnTimer, playerIndex, gameTime, scene, updates, last,
          now, lastTime, isRunning, rafs, callbacks, lastTick, ticks,
          score, streak, isPlaying, projectiles, progress, isFinished, steps, glast,
          fetch>>

----------------------------------------------------------------------------
(* Bounds of the model *)

MaxUpdates == 2
MaxTicks == 3
MaxClock == 5
MaxSteps == 5
MaxFrames == 3
MaxShots == 2
MaxPages == 2

(* Program constants *)

SpawnIntervalColour == 5
SpawnIntervalSoul == 3
SpawnIntervalPlain == 3
PassZ == 50
HitRadius == 30
PopupLifetime == 15
SoulLifetime == 20
PreloadCount == 50
DeltaCap == 100
StreakStep == 5
ShotSpeed == 80
FarZ == 2000
NearZ == 500
RailDuration == 600
RailSpeed == 1
PerPage == 50

Variants == {"colour", "soul", "plain"}

HasCache == variant \in {"colour", "soul"}

SpawnInterval ==
    CASE variant = "colour" -> SpawnIntervalColour
      [] variant = "soul"   -> SpawnIntervalSoul
      [] OTHER              -> SpawnIntervalPlain

FeedbackLifetime == IF variant = "colour" THEN PopupLifetime ELSE SoulLifetime

----------------------------------------------------------------------------
(* Vectors (THREE.Vector3) *)

Zero3 == <<0, 0, 0>>

VAdd(a, b) == <<a[1] + b[1], a[2] + b[2], a[3] + b[3]>>

VScale(v, k) == <<v[1] * k, v[2] * k, v[3] * k>>

Sq(x) == x * x

Abs(x) == IF x < 0 THEN -x ELSE x

Min(a, b) == IF a < b THEN a ELSE b

Max(a, b) == IF a > b THEN a ELSE b

\* square of Vector3.distanceTo
DistSq(a, b) == Sq(a[1] - b[1]) + Sq(a[2] - b[2]) + Sq(a[3] - b[3])

----------------------------------------------------------------------------
(* Inputs *)

Colours == {"red", "blue"}

\* The player lists handed to setPlayers: player i is named i, colours
\* alternate, and all players share one avatar URL, as the bundled sample
\* players of getSamplePlayers do.
ColourOf(i) == IF i % 2 = 1 THEN "red" ELSE "blue"

UrlOf(i) == 1

PlayerList(n) ==
    [i \in 1..n |-> [name |-> i, color |-> ColourOf(i), profilePicture |-> UrlOf(i)]]

\* Lengths of the lists tried: empty, one player, several players.
PlayerCounts == {0, 1, 2}

PlayerLists == {PlayerList(n) : n \in PlayerCounts}

\* The same lists as the older fetchTopPlayers builds them: its players
\* carry no color field.
UntaggedList(n) ==
    [i \in 1..n |-> [name |-> i, color |-> "none", profilePicture |-> UrlOf(i)]]

UntaggedLists == {UntaggedList(n) : n \in PlayerCounts}

\* A list as fetchTopPlayers builds it from the API's answer: every player
\* brings an avatar URL of their own.
FetchedList(n) ==
    [i \in 1..n |-> [name |-> i, color |-> ColourOf(i), profilePicture |-> i]]

FetchedLists == {FetchedList(n) : n \in PlayerCounts \ {0, 1}}

\* Deltas handed to update(): below, at and far above the spawn interval.
Deltas == IF variant = "colour" THEN {3, 5, 70} ELSE {2, 3, 40}

\* Spawn samples with a target that has no forward velocity
SpawnSamplesHovering ==
    IF variant = "colour"
    THEN {[pos |-> <<60, 0, -1200>>, velocity |-> <<0, 0, 0>>],
          [pos |-> <<40, 30, -1330>>, velocity |-> <<2, -2, 19>>]}
    ELSE {[pos |-> <<60, 0, -1500>>, velocity |-> <<0, 0, 0>>],
          [pos |-> <<40, 30, -1650>>, velocity |-> <<4, -4, 45>>]}

\* Samples of the Math.random() draws of spawnTarget: a spawn position
\* (radius 5..17 resp. 5..20, depth -160..-120 resp. -200..-150) with a
\* velocity (drift below 2.5 resp. 5, forward 12..20 resp. 30..50).
SpawnSamples ==
    IF variant = "colour"
    THEN {[pos |-> <<60, 0, -1200>>, velocity |-> <<0, 0, 12>>],
          [pos |-> <<40, 30, -1330>>, velocity |-> <<2, -2, 19>>]}
    ELSE {[pos |-> <<60, 0, -1500>>, velocity |-> <<0, 0, 30>>],
          [pos |-> <<40, 30, -1650>>, velocity |-> <<4, -4, 45>>]}

\* Sample of the Math.random() draws of spawnNamePopup / spawnSoul.
PopupVelocity == IF variant = "colour" THEN <<0, 6, 0>> ELSE <<0, 8, 0>>

----------------------------------------------------------------------------
(* The pool: the fields of a PlayerTargets object and the render graph *)

Pool ==
    [targets |-> targets, namePopups |-> namePopups, avatarCache |-> avatarCache,
     pending |-> pending, preloading |-> preloading, ready |-> ready,
     spawnTimer |-> spawnTimer, playerIndex |-> playerIndex,
     gameTime |-> gameTime, scene |-> scene]

Urls ==
    UNION {{l[i].profilePicture : i \in 1..Len(l)} : l \in PlayerLists \cup FetchedLists}

SeqRange(s) == {s[i] : i \in 1..Len(s)}

RemoveAt(s, i) == SubSeq(s, 1, i - 1) \o SubSeq(s, i + 1, Len(s))

LeastUnused(used) ==
    CHOOSE n \in 1..(Cardinality(used) + 1) :
        n \notin used /\ \A m \in 1..(n - 1) : m \in used

\* new THREE.Sprite(...): an object distinct from every sprite still referenced
NewSprite(P) ==
    LeastUnused(P.scene \cup {t.mesh : t \in SeqRange(P.targets)}
                        \cup {p.mesh : p \in SeqRange(P.namePopups)})

\* The Image object of a request that completes for url: an object distinct
\* from every image still referenced once its onload has run. (An Image is
\* referenced by nothing but its own request until then, so the pending ones
\* are told apart only by their URL.)
NewImage(P, url) ==
    LeastUnused(({P.avatarCache[u] : u \in Urls \ {url}}
                 \cup {t.avatarImage : t \in SeqRange(P.targets)}
                 \cup {p.image : p \in SeqRange(P.namePopups)}) \ {0})

\* the pool's targets without the alive test
AllTargets(P) == 1..Len(P.targets)

AliveTargets(P) == {i \in 1..Len(P.targets) : P.targets[i].alive}

----------------------------------------------------------------------------
(* Avatar cache *)

\* loadAvatar(url): a cached URL resolves at once, any other starts a request
LoadAvatar(P, url) ==
    IF P.avatarCache[url] # 0
    THEN P
    ELSE [P EXCEPT !.pending[url] = @ + 1]

RECURSIVE PreloadFrom(_, _, _)
PreloadFrom(P, list, i) ==
    IF i > Min(PreloadCount, Len(list))
    THEN P
    ELSE LET Q == LoadAvatar(P, list[i].profilePicture)
         IN  \* (the test makes Q a value before the next call is evaluated)
             IF Q.pending = P.pending
             THEN PreloadFrom(P, list, i + 1)
             ELSE PreloadFrom(Q, list, i + 1)

\* a preload that goes on as soon as it has started its requests
PreloadNeverWaits(P) == TRUE

\* await Promise.allSettled(loadPromises): no attempt is left unsettled
PreloadSettled(P) == \A u \in Urls : P.preloading[u] = 0

\* preloadAvatars(): loadAvatar for each of the first 50 players, then the
\* wait for all of them
PreloadAvatars(P, list) ==
    LET Q == PreloadFrom(P, list, 1)
        R == [Q EXCEPT !.preloading = [u \in Urls |-> Q.pending[u] - P.pending[u]]]
    IN  [R EXCEPT !.ready = PreloadSettled(R)]

\* who started a request: preloadAvatars, or spawnTarget looking ahead
RequestKinds == {"preload", "lookahead"}

\* a request of that kind for url is in flight
InFlight(P, url, kind) ==
    IF kind = "preload"
    THEN P.preloading[url] > 0
    ELSE P.pending[url] - P.preloading[url] > 0

\* a request for url settles: its promise leaves the ones preloadAvatars
\* waits for, and the wait ends with the last of them
Settle(P, url, kind) ==
    LET Q == [P EXCEPT !.pending[url] = @ - 1,
                       !.preloading[url] = IF kind = "preload" THEN @ - 1 ELSE @]
    IN  [Q EXCEPT !.ready = P.ready \/ (kind = "preload" /\ PreloadSettled(Q))]

\* img.onload handing the image also to the targets in flight that were
\* spawned without it
OnLoadUpgrades(P, url, kind) ==
    LET img == NewImage(P, url)
        Q == [P EXCEPT !.avatarCache[url] = img,
                       !.targets = [i \in 1..Len(P.targets) |->
                           IF /\ P.targets[i].avatarImage = 0
                              /\ players[P.targets[i].player].profilePicture = url
                           THEN [P.targets[i] EXCEPT !.avatarImage = img]
                           ELSE P.targets[i]]]
    IN  Settle(Q, url, kind)

\* img.onload: the image enters the cache and the promise resolves
OnLoad(P, url, kind) ==
    Settle([P EXCEPT !.avatarCache[url] = NewImage(P, url)], url, kind)

\* img.onerror = reject: the promise rejects, the cache is not touched
OnError(P, url, kind) == Settle(P, url, kind)

----------------------------------------------------------------------------
(* Target pool *)

\* start() as it would be had the timer reset been left out
StartPoolKeepsTimer(P) ==
    [P EXCEPT !.targets = <<>>, !.namePopups = <<>>, !.playerIndex = 0,
              !.gameTime = 0]

\* start()
StartPool(P) ==
    [P EXCEPT !.targets = <<>>, !.namePopups = <<>>, !.playerIndex = 0,
              !.spawnTimer = 0, !.gameTime = 0]

\* spawnTarget() reading the cursor without advancing it
SpawnTargetReplay(P, sp, sv) ==
    LET player == P.playerIndex + 1
        target == [mesh |-> NewSprite(P),
                   player |-> player,
                   pos |-> sp,
                   velocity |-> sv,
                   alive |-> TRUE,
                   avatarImage |-> IF HasCache
                                   THEN P.avatarCache[players[player].profilePicture]
                                   ELSE 0,
                   spawnTime |-> P.gameTime,
                   retired |-> 0]
    IN  [P EXCEPT !.targets = Append(@, target),
                  !.scene = @ \cup {target.mesh}]

\* spawnTarget() asking for the avatar of the player it has just spawned
SpawnTargetLoadsOwn(P, sp, sv) ==
    LET player == P.playerIndex + 1
        target == [mesh |-> NewSprite(P),
                   player |-> player,
                   pos |-> sp,
                   velocity |-> sv,
                   alive |-> TRUE,
                   avatarImage |-> IF HasCache
                                   THEN P.avatarCache[players[player].profilePicture]
                                   ELSE 0,
                   spawnTime |-> P.gameTime,
                   retired |-> 0]
        Q == [P EXCEPT !.playerIndex = player,
                       !.targets = Append(@, target),
                       !.scene = @ \cup {target.mesh}]
    IN  IF HasCache
        THEN LoadAvatar(Q, players[player].profilePicture)
        ELSE Q

\* spawnTarget(), with the random position sp and the random velocity sv
SpawnTarget(P, sp, sv) ==
    LET player == P.playerIndex + 1
        target == [mesh |-> NewSprite(P),
                   player |-> player,
                   pos |-> sp,
                   velocity |-> sv,
                   alive |-> TRUE,
                   avatarImage |-> IF HasCache
                                   THEN P.avatarCache[players[player].profilePicture]
                                   ELSE 0,
                   spawnTime |-> P.gameTime,
                   retired |-> 0]
        Q == [P EXCEPT !.playerIndex = player,
                       !.targets = Append(@, target),
                       !.scene = @ \cup {target.mesh}]
    IN  IF HasCache /\ Q.playerIndex < Len(players)
        THEN LoadAvatar(Q, players[Q.playerIndex + 1].profilePicture)
        ELSE Q

\* spawnNamePopup handed the player at the cursor instead of the target's
SpawnNamePopupOfCursor(P, t, position) ==
    LET popup == [mesh |-> NewSprite(P),
                  player |-> IF variant = "colour" THEN P.playerIndex ELSE 0,
                  image |-> IF variant = "soul" THEN t.avatarImage ELSE 0,
                  pos |-> position,
                  velocity |-> PopupVelocity,
                  lifetime |-> FeedbackLifetime,
                  opacity |-> FeedbackLifetime]
    IN  [P EXCEPT !.namePopups = Append(@, popup), !.scene = @ \cup {popup.mesh}]

\* spawnNamePopup(player, position) / spawnSoul(avatarImage, position)
SpawnNamePopup(P, t, position) ==
    LET popup == [mesh |-> NewSprite(P),
                  player |-> IF variant = "colour" THEN t.player ELSE 0,
                  image |-> IF variant = "soul" THEN t.avatarImage ELSE 0,
                  pos |-> position,
                  velocity |-> PopupVelocity,
                  lifetime |-> FeedbackLifetime,
                  opacity |-> FeedbackLifetime]
    IN  [P EXCEPT !.namePopups = Append(@, popup), !.scene = @ \cup {popup.mesh}]

\* removeTarget ignoring its spawnPopup argument
WantsPopupAlways(t, spawnPopup) ==
    CASE variant = "colour" -> TRUE
      [] variant = "soul"   -> t.avatarImage # 0
      [] OTHER              -> FALSE

\* whether removeTarget(target, spawnPopup) creates a feedback popup
WantsPopup(t, spawnPopup) ==
    CASE variant = "colour" -> spawnPopup
      [] variant = "soul"   -> spawnPopup /\ t.avatarImage # 0
      [] OTHER              -> FALSE

\* removeTarget(targets[i], spawnPopup)
RemoveTarget(P, i, spawnPopup) ==
    LET t == P.targets[i]
        Q == [P EXCEPT !.targets[i].alive = FALSE,
                       !.targets[i].retired = @ + 1,
                       !.scene = @ \ {t.mesh}]
    IN  IF WantsPopup(t, spawnPopup) THEN SpawnNamePopup(Q, t, t.pos) ELSE Q

\* the spawn step as a catch-up loop: one target per interval elapsed
RECURSIVE SpawnStepCatchUp(_, _, _)
SpawnStepCatchUp(P, sp, sv) ==
    IF P.spawnTimer >= SpawnInterval /\ P.playerIndex < Len(players)
    THEN SpawnStepCatchUp([SpawnTarget(P, sp, sv) EXCEPT !.spawnTimer = @ - SpawnInterval],
                          sp, sv)
    ELSE P

\* the spawn step without the timer test
SpawnStepEveryCall(P, sp, sv) ==
    IF P.playerIndex < Len(players)
    THEN [SpawnTarget(P, sp, sv) EXCEPT !.spawnTimer = 0]
    ELSE P

\* the spawn step leaving the timer as it is
SpawnStepKeepsTimer(P, sp, sv) ==
    IF P.spawnTimer >= SpawnInterval /\ P.playerIndex < Len(players)
    THEN SpawnTarget(P, sp, sv)
    ELSE P

\* the spawn step with > in place of >=
SpawnStepStrict(P, sp, sv) ==
    IF P.spawnTimer > SpawnInterval /\ P.playerIndex < Len(players)
    THEN [SpawnTarget(P, sp, sv) EXCEPT !.spawnTimer = 0]
    ELSE P

\* the spawn step starting over with the first player after the last one
SpawnStepWrapAround(P, sp, sv) ==
    IF P.spawnTimer >= SpawnInterval /\ Len(players) > 0
    THEN LET Q == IF P.playerIndex < Len(players) THEN P
                  ELSE [P EXCEPT !.playerIndex = 0]
         IN  [SpawnTarget(Q, sp, sv) EXCEPT !.spawnTimer = 0]
    ELSE P

\* update(): the spawn step
SpawnStep(P, sp, sv) ==
    IF P.spawnTimer >= SpawnInterval /\ P.playerIndex < Len(players)
    THEN [SpawnTarget(P, sp, sv) EXCEPT !.spawnTimer = 0]
    ELSE P

\* update(): one iteration of the loop over the targets
MoveTarget(P, i, delta) ==
    IF ~P.targets[i].alive
    THEN P
    ELSE LET Q == [P EXCEPT !.targets[i].pos =
                               VAdd(@, VScale(P.targets[i].velocity, delta))]
         IN  IF Q.targets[i].pos[3] > PassZ THEN RemoveTarget(Q, i, FALSE) ELSE Q

RECURSIVE MoveTargetsFrom(_, _, _)
MoveTargetsFrom(P, i, delta) ==
    IF i > Len(P.targets)
    THEN P
    ELSE MoveTargetsFrom(MoveTarget(P, i, delta), i + 1, delta)

\* update(): one iteration of the loop over the popups (by decreasing index)
UpdatePopup(P, i, delta) ==
    LET old == P.namePopups[i]
        popup == [old EXCEPT !.lifetime = @ - delta,
                             !.opacity = Max(0, old.lifetime - delta),
                             !.pos = VAdd(@, VScale(old.velocity, delta))]
    IN  IF popup.lifetime <= 0
        THEN [P EXCEPT !.scene = @ \ {popup.mesh},
                       !.namePopups = RemoveAt(@, i)]
        ELSE [P EXCEPT !.namePopups[i] = popup]

\* the popup loop run by increasing index: the popup that follows a removed
\* one moves into its place and is passed over
RECURSIVE PopupsForwardFrom(_, _, _)
PopupsForwardFrom(P, j, delta) ==
    IF j > Len(P.namePopups)
    THEN P
    ELSE PopupsForwardFrom(UpdatePopup(P, j, delta), j + 1, delta)

UpdatePopupsForward(P, i, delta) == PopupsForwardFrom(P, 1, delta)

RECURSIVE UpdatePopupsFrom(_, _, _)
UpdatePopupsFrom(P, i, delta) ==
    IF i < 1 THEN P ELSE UpdatePopupsFrom(UpdatePopup(P, i, delta), i - 1, delta)

\* spawnTarget() of the next player raises: COLORS[player.color] is
\* undefined for a player without a colour, and colors.glow is read from it
SpawnThrows(P) ==
    /\ variant = "colour"
    /\ players[P.playerIndex + 1].color \notin Colours

\* update(delta) raises: a spawn is due and raises. The error leaves
\* update() at once, after the timers and the cursor have been advanced.
UpdateThrows(P, delta) ==
    /\ P.spawnTimer + delta >= SpawnInterval
    /\ P.playerIndex < Len(players)
    /\ SpawnThrows(P)

\* update(delta) with the targets moved before the spawn step
UpdatePoolMoveFirst(P, delta, sp, sv) ==
    LET P0 == [P EXCEPT !.gameTime = @ + delta, !.spawnTimer = @ + delta]
        P1 == MoveTargetsFrom(P0, 1, delta)
        P2 == SpawnStep(P1, sp, sv)
    IN  UpdatePopupsFrom(P2, Len(P2.namePopups), delta)

\* update(delta)
UpdatePool(P, delta, sp, sv) ==
    LET P0 == [P EXCEPT !.gameTime = @ + delta, !.spawnTimer = @ + delta]
        P1 == SpawnStep(P0, sp, sv)
        P2 == MoveTargetsFrom(P1, 1, delta)
    IN  IF UpdateThrows(P, delta)
        THEN [P0 EXCEPT !.playerIndex = @ + 1]
        ELSE UpdatePopupsFrom(P2, Len(P2.namePopups), delta)

----------------------------------------------------------------------------
(* Hit resolver *)

\* Sprite sizes (sprite.scale) of the ray variants, in tenths of a unit
SpriteWidth == IF variant = "soul" THEN 100 ELSE 80

SpriteHeight == IF variant = "soul" THEN 25 ELSE 20

\* Raycaster.intersectObjects, for a ray that runs from the camera at depth
\* ray[3] down the tunnel (towards -z) through the lateral point
\* (ray[1], ray[2]): the ray meets a sprite that lies in front of the camera
\* and whose rectangle covers the point, at distance ray[3] - z.
RayMeets(ray, t) ==
    /\ t.pos[3] < ray[3]
    /\ 2 * Abs(t.pos[1] - ray[1]) <= SpriteWidth
    /\ 2 * Abs(t.pos[2] - ray[2]) <= SpriteHeight

RayDistance(ray, t) == ray[3] - t.pos[3]

\* the targets the query matches, dead ones included
CandidatesDeadOrAlive(P, q) ==
    IF variant = "colour"
    THEN {i \in 1..Len(P.targets) :
            DistSq(P.targets[i].pos, q.pos) < HitRadius * HitRadius}
    ELSE {i \in 1..Len(P.targets) : RayMeets(q.pos, P.targets[i])}

\* the targets the query matches, with <= in place of < for the hit radius
CandidatesInclusive(P, q) ==
    IF variant = "colour"
    THEN {i \in AliveTargets(P) :
            DistSq(P.targets[i].pos, q.pos) <= HitRadius * HitRadius}
    ELSE {i \in AliveTargets(P) : RayMeets(q.pos, P.targets[i])}

\* the targets the query matches, among the alive ones
Candidates(P, q) ==
    IF variant = "colour"
    THEN {i \in AliveTargets(P) :
            DistSq(P.targets[i].pos, q.pos) < HitRadius * HitRadius}
    ELSE {i \in AliveTargets(P) : RayMeets(q.pos, P.targets[i])}

\* the target checkHit would settle on with a distance sort in both modes
MatchedNearest(P, q) ==
    LET C == Candidates(P, q)
        D(i) == IF variant = "colour"
                THEN DistSq(P.targets[i].pos, q.pos)
                ELSE RayDistance(q.pos, P.targets[i])
    IN  IF C = {} THEN 0
        ELSE CHOOSE i \in C : \A j \in C : D(i) < D(j) \/ (D(i) = D(j) /\ i <= j)

\* the ray variants' checkHit taking the last intersection instead of the first
MatchedFarthest(P, q) ==
    LET C == Candidates(P, q)
    IN  IF C = {} THEN 0
        ELSE IF variant = "colour"
        THEN CHOOSE i \in C : \A j \in C : i <= j
        ELSE CHOOSE i \in C : \A j \in C :
                \/ RayDistance(q.pos, P.targets[i]) > RayDistance(q.pos, P.targets[j])
                \/ /\ RayDistance(q.pos, P.targets[i]) = RayDistance(q.pos, P.targets[j])
                   /\ i <= j

\* the target checkHit settles on (0 = none): the first candidate in pool
\* order (colour), intersects[0], the nearest along the ray (soul, plain)
Matched(P, q) ==
    LET C == Candidates(P, q)
    IN  IF C = {} THEN 0
        ELSE IF variant = "colour"
        THEN CHOOSE i \in C : \A j \in C : i <= j
        ELSE CHOOSE i \in C : \A j \in C :
                \/ RayDistance(q.pos, P.targets[i]) < RayDistance(q.pos, P.targets[j])
                \/ /\ RayDistance(q.pos, P.targets[i]) = RayDistance(q.pos, P.targets[j])
                   /\ i <= j

RECURSIVE RemoveTargets(_, _)
RemoveTargets(P, C) ==
    IF C = {}
    THEN P
    ELSE LET i == CHOOSE j \in C : \A k \in C : j <= k
         IN  RemoveTargets(RemoveTarget(P, i, TRUE), C \ {i})

\* checkHit retiring every target the query matches
CheckHitPoolRetireAll(P, q) ==
    LET i == Matched(P, q)
    IN  IF i = 0
        THEN [pool |-> P, hit |-> 0, player |-> 0, correct |-> FALSE]
        ELSE [pool |-> RemoveTargets(P, Candidates(P, q)),
              hit |-> i,
              player |-> P.targets[i].player,
              correct |-> IF variant = "colour"
                          THEN players[P.targets[i].player].color = q.color
                          ELSE FALSE]

\* checkHit retiring the matched target only when the colours agree
CheckHitPoolCorrectOnly(P, q) ==
    LET i == Matched(P, q)
        correct == IF i # 0 /\ variant = "colour"
                   THEN players[P.targets[i].player].color = q.color
                   ELSE FALSE
    IN  IF i = 0
        THEN [pool |-> P, hit |-> 0, player |-> 0, correct |-> FALSE]
        ELSE [pool |-> IF correct \/ variant # "colour"
                       THEN RemoveTarget(P, i, TRUE) ELSE P,
              hit |-> i,
              player |-> P.targets[i].player,
              correct |-> correct]

\* checkHit(position, shotColor) / checkHit(ndc, camera): the pool afterwards
\* and the result (hit = 0 stands for null)
CheckHitPool(P, q) ==
    LET i == Matched(P, q)
    IN  IF i = 0
        THEN [pool |-> P, hit |-> 0, player |-> 0, correct |-> FALSE]
        ELSE [pool |-> RemoveTarget(P, i, TRUE),
              hit |-> i,
              player |-> P.targets[i].player,
              correct |-> IF variant = "colour"
                          THEN players[P.targets[i].player].color = q.color
                          ELSE FALSE]

\* Query positions tried: the camera origin, and points at fixed offsets
\* from a target of the pool
QueryOffsets ==
    IF variant = "colour"
    THEN {<<0, 0, 0>>, <<0, 0, 29>>, <<0, 0, 30>>}
    ELSE {<<0, 0, 0>>, <<0, 60, 0>>}

Queries ==
    LET points == {Zero3} \cup
                  {VAdd(targets[i].pos, o) : i \in 1..Len(targets), o \in QueryOffsets}
    IN  IF variant = "colour"
        THEN {[pos |-> pt, color |-> c] : pt \in points, c \in Colours}
        ELSE {[pos |-> <<pt[1], pt[2], 0>>, color |-> "none"] : pt \in points}

----------------------------------------------------------------------------
(* Ticker (src/unnamed/part_002).  Times are in milliseconds here: the     *)
(* delta handed to the subscribers, (now - lastTime) / 1000 capped at 0.1  *)
(* seconds, is kept as the number of milliseconds it stands for.           *)

\* performance.now() when the Ticker is constructed
StartTimes == {0, 250}

\* Time between two readings of the clock: none, a 60 Hz frame, the cap,
\* just above it, and a suspended tab
FrameGaps == {0, 16, 100, 101, 5000}

Ticker ==
    [lastTime |-> lastTime, isRunning |-> isRunning, rafs |-> rafs,
     callbacks |-> callbacks, lastTick |-> lastTick]

\* What the last tick did: the time since the tick before, the delta handed
\* out, the number of calls made, the callbacks array before and after the
\* loop, and the callbacks invoked, in the order of their calls
NoTick ==
    [elapsed |-> 0, delta |-> 0, called |-> 0, before |-> <<>>, after |-> <<>>,
     invoked |-> <<>>]

\* the delta without Math.min
TickDeltaUncapped(t, lt) == t - lt

\* const delta = Math.min((now - this.lastTime) / 1000, 0.1)
TickDelta(t, lt) == Min(t - lt, DeltaCap)

\* the first index of callback in the array, 0 when absent (indexOf)
IndexOf(s, callback) ==
    IF \E i \in 1..Len(s) : s[i] = callback
    THEN CHOOSE i \in 1..Len(s) : s[i] = callback /\ \A j \in 1..(i - 1) : s[j] # callback
    ELSE 0

\* unsubscribe(callback)
Unsubscribed(T, callback) ==
    LET index == IndexOf(T.callbacks, callback)
    IN  IF index > 0
        THEN [T EXCEPT !.callbacks = RemoveAt(@, index)]
        ELSE T

\* The callbacks subscribed: "update" is Game.update, which leaves the
\* ticker alone; "once" is a listener that unsubscribes itself when it is
\* called.
Callbacks == {"update", "once"}

\* callback(delta)
Invoke(T, callback) ==
    IF callback = "once" THEN Unsubscribed(T, callback) ELSE T

\* for (const callback of this.callbacks) callback(delta), from index i on:
\* the array iterator reads the array as it is when each step is taken
RECURSIVE TickLoop(_, _, _)
TickLoop(T, i, invoked) ==
    IF i > Len(T.callbacks)
    THEN [ticker |-> T, invoked |-> invoked]
    ELSE TickLoop(Invoke(T, T.callbacks[i]), i + 1, Append(invoked, T.callbacks[i]))

\* tick() run at clock reading t: the subscribers are called with delta
TickAt(T, t) ==
    IF ~T.isRunning
    THEN T
    ELSE LET L == TickLoop([T EXCEPT !.lastTime = t], 1, <<>>)
         IN  [L.ticker EXCEPT
                  !.lastTick = [elapsed |-> t - T.lastTime,
                                delta |-> TickDelta(t, T.lastTime),
                                called |-> Len(L.invoked),
                                before |-> T.callbacks,
                                after |-> L.ticker.callbacks,
                                invoked |-> L.invoked],
                  !.rafs = @ + 1]

\* start() at clock reading t
StartTicker(T, t) ==
    IF T.isRunning
    THEN T
    ELSE TickAt([T EXCEPT !.isRunning = TRUE, !.lastTime = t], t)

\* stop()
StopTicker(T) == [T EXCEPT !.isRunning = FALSE]

\* new Ticker() at clock reading t: the constructor calls start()
TickerConstructed(t) ==
    LET T == StartTicker([lastTime |-> 0, isRunning |-> FALSE, rafs |-> 0,
                          callbacks |-> <<>>, lastTick |-> NoTick], t)
    IN  /\ now = t
        /\ lastTime = T.lastTime
        /\ isRunning = T.isRunning
        /\ rafs = T.rafs
        /\ callbacks = T.callbacks
        /\ lastTick = T.lastTick
        /\ ticks = 0

----------------------------------------------------------------------------
(* Game (src/unnamed/part_003) *)

\* What a handler of Game did: the correct hits and the wrong-colour hits it
\* scored, the projectiles it dropped for leaving the play range, the points
\* it awarded, whether it ended the session, and for every hit the pair of
\* the projectile (its index in projectiles) and the target (its index in
\* targets) that checkHit returned for it.
NoHandler ==
    [op |-> "none", hits |-> 0, wrong |-> 0, left |-> 0, points |-> 0, over |-> FALSE,
     credits |-> {}]

Game ==
    [score |-> score, streak |-> streak, isPlaying |-> isPlaying,
     projectiles |-> projectiles]

\* The Rail object. progress counts the tenths of a second of the run done
\* at speed 1: the source's progress is this number over RailDuration, and
\* its test progress >= 1 is progress >= RailDuration here.
Rail ==
    [progress |-> progress, isFinished |-> isFinished]

\* Rail.start()
RailStart(R) ==
    [progress |-> 0, isFinished |-> FALSE]

\* Rail.update going on after the end of the run
RailUpdateNoEnd(R, delta) ==
    [R EXCEPT !.progress = @ + delta * RailSpeed]

\* Rail.update(delta)
RailUpdate(R, delta) ==
    IF R.isFinished
    THEN R
    ELSE LET p == R.progress + delta * RailSpeed
         IN  IF p >= RailDuration
             THEN [progress |-> RailDuration, isFinished |-> TRUE]
             ELSE [progress |-> p, isFinished |-> FALSE]

\* the Game object, the PlayerTargets object it drives, and the account of
\* the handler that is running
World ==
    [g |-> Game, p |-> Pool, r |-> Rail, hits |-> 0, wrong |-> 0, left |-> 0,
     points |-> 0, over |-> FALSE, credits |-> {}]

\* const points = 1 + Math.floor(this.streak / 5)
Points(s) == 1 + (s \div StreakStep)

\* the points worked out before the streak is incremented
AwardPointsFirst(W) ==
    [W EXCEPT !.g.streak = @ + 1,
              !.g.score = @ + Points(W.g.streak),
              !.hits = @ + 1,
              !.points = @ + Points(W.g.streak)]

\* this.streak++; points = 1 + floor(streak / 5); this.score += points
Award(W) ==
    LET s == W.g.streak + 1
    IN  [W EXCEPT !.g.streak = s,
                  !.g.score = @ + Points(s),
                  !.hits = @ + 1,
                  !.points = @ + Points(s)]

\* onHit leaving the streak alone on a wrong colour
OnHitKeepsStreak(W, correct) ==
    IF correct
    THEN Award(W)
    ELSE [W EXCEPT !.wrong = @ + 1]

\* onHit(player, correct, position)
OnHit(W, correct) ==
    IF correct
    THEN Award(W)
    ELSE [W EXCEPT !.g.streak = 0, !.wrong = @ + 1]

\* removeProjectile taking the mesh out of the scene without clearing alive
RemoveProjectileKeepsAlive(W, i) ==
    [W EXCEPT !.p.scene = @ \ {W.g.projectiles[i].mesh}]

\* removeProjectile(projectiles[i])
RemoveProjectile(W, i) ==
    [W EXCEPT !.g.projectiles[i].alive = FALSE,
              !.p.scene = @ \ {W.g.projectiles[i].mesh}]

\* new THREE.Mesh(...) of a projectile: an object distinct from every sprite
\* (these are numbered from 1 upwards) and from the meshes of the
\* projectiles in the array
NewMesh(W) == -(Len(W.g.projectiles) + 1)

\* start()
StartGame(W) ==
    [W EXCEPT !.g.isPlaying = TRUE,
              !.g.score = 0,
              !.g.streak = 0,
              !.g.projectiles = <<>>,
              !.r = RailStart(W.r),
              !.p = StartPool(W.p)]

\* shoot(x, y) of the ray revision, the click giving the ray q
ShootRay(W, q) ==
    LET r == CheckHitPool(W.p, q)
    IN  IF r.hit # 0
        THEN Award([W EXCEPT !.p = r.pool])
        ELSE [W EXCEPT !.g.streak = 0]

\* shoot(x, y, color) of the colour revision, the camera being at origin
\* and the click giving the velocity
ShootProjectile(W, color, origin, velocity) ==
    LET mesh == NewMesh(W)
    IN  [W EXCEPT !.g.projectiles =
                      Append(@, [mesh |-> mesh, pos |-> origin, velocity |-> velocity,
                                 color |-> color, alive |-> TRUE]),
                  !.p.scene = @ \cup {mesh}]

\* updateProjectiles(): one iteration of the loop
StepProjectile(W, i, delta) ==
    IF ~W.g.projectiles[i].alive
    THEN W
    ELSE LET proj == W.g.projectiles[i]
             pos == VAdd(proj.pos, VScale(proj.velocity, delta))
             moved == [W EXCEPT !.g.projectiles[i].pos = pos]
             r == CheckHitPool(W.p, [pos |-> pos, color |-> proj.color])
         IN  IF r.hit # 0
             THEN RemoveProjectile(
                      OnHit([moved EXCEPT !.p = r.pool, !.credits = @ \cup {<<i, r.hit>>}],
                            r.correct), i)
             ELSE IF pos[3] < -FarZ \/ pos[3] > NearZ
             THEN RemoveProjectile([moved EXCEPT !.left = @ + 1], i)
             ELSE moved

\* updateProjectiles(delta): the loop runs by decreasing index
RECURSIVE UpdateProjectilesFrom(_, _, _)
UpdateProjectilesFrom(W, i, delta) ==
    IF i < 1 THEN W ELSE UpdateProjectilesFrom(StepProjectile(W, i, delta), i - 1, delta)

\* gameOver()
GameOver(W) ==
    LET dropped == {q.mesh : q \in {x \in SeqRange(W.g.projectiles) : x.alive}}
    IN  [W EXCEPT !.g.isPlaying = FALSE,
                  !.g.projectiles = <<>>,
                  !.p.scene = @ \ dropped,
                  !.over = TRUE]

\* update(delta): sp and sv are the draws of the spawn. An exception of
\* targets.update leaves update after the rail and the pool have changed.
UpdateGame(W, delta, sp, sv) ==
    IF ~W.g.isPlaying
    THEN W
    ELSE LET W1 == [W EXCEPT !.r = RailUpdate(@, delta),
                             !.p = UpdatePool(W.p, delta, sp, sv)]
             W2 == IF variant = "colour"
                   THEN UpdateProjectilesFrom(W1, Len(W1.g.projectiles), delta)
                   ELSE W1
         IN  IF UpdateThrows(W.p, delta)
             THEN W1
             ELSE IF W2.r.isFinished THEN GameOver(W2) ELSE W2

\* the click and contextmenu listeners shooting whether a session runs or not
OnClickShoots(W, color, origin, velocity, q) ==
    IF variant = "colour"
    THEN ShootProjectile(W, color, origin, velocity)
    ELSE ShootRay(W, q)

\* the click listener (and, in the colour revision, the contextmenu
\* listener, which passes the other colour): the colour revision shoots a
\* projectile from origin at velocity, the ray revisions cast the ray q
OnClick(W, color, origin, velocity, q) ==
    IF ~W.g.isPlaying
    THEN StartGame(W)
    ELSE IF variant = "colour"
    THEN ShootProjectile(W, color, origin, velocity)
    ELSE ShootRay(W, q)

\* fetchTopPlayers (src/src/api/ScoreSaber.ts 29-71; the older revision,
\* src/unnamed/part_000 29-68, differs in the colour tag and in the length
\* of the bundled list).  A player is kept as its rank; the fields copied
\* from the response and the colour drawn for it play no part in what
\* follows.  The bundled players are numbered below 0.
\*
\* state: "idle" before the call, "fetching" while a page request is
\* awaited, "waiting" during the delay between two pages, "resolved" and
\* "rejected" for the promise returned; requested lists the pages asked
\* for, failed tells whether the catch clause has run.
NoFetch ==
    [state |-> "idle", count |-> 0, pages |-> 0, page |-> 0, players |-> <<>>,
     requested |-> <<>>, failed |-> FALSE, result |-> <<>>]

\* Math.ceil(count / perPage), for count >= 0
Pages(count) == (count + PerPage - 1) \div PerPage

\* the bundled list of getSamplePlayers()
SampleSize == IF variant = "colour" THEN 95 ELSE 8

GetSamplePlayers == [i \in 1..SampleSize |-> -i]

\* the body of page `page` of the API holding n players, the last of them
\* without a pp field (rank 0) if malformed
PageBody(page, n, malformed) ==
    [k \in 1..n |-> IF malformed /\ k = n THEN 0 ELSE (page - 1) * PerPage + k]

\* What the API may answer to a page request: the request fails (fetch
\* rejects), the status is not OK, the body is not the JSON expected, or a
\* page of 0, perPage - 1 or perPage players comes back
Answers(page) ==
    {[kind |-> k, body |-> <<>>] : k \in {"rejected", "status", "json"}} \cup
    {[kind |-> "ok", body |-> PageBody(page, n, FALSE)] : n \in {0, PerPage - 1, PerPage}} \cup
    {[kind |-> "ok", body |-> PageBody(page, PerPage, TRUE)]}

\* for (const p of data.players) { players.push(...); if (players.length
\* >= count) break }, from entry k on: p.pp.toFixed(2) throws for an entry
\* without pp
RECURSIVE PushFrom(_, _, _, _)
PushFrom(collected, body, k, count) ==
    IF k > Len(body)
    THEN [players |-> collected, threw |-> FALSE]
    ELSE IF body[k] = 0
    THEN [players |-> collected, threw |-> TRUE]
    ELSE LET pushed == Append(collected, body[k])
         IN  IF Len(pushed) >= count
             THEN [players |-> pushed, threw |-> FALSE]
             ELSE PushFrom(pushed, body, k + 1, count)

\* the catch clause returning what had been collected
CaughtKeepsCollected(F) ==
    [F EXCEPT !.state = "resolved", !.failed = TRUE, !.result = F.players]

\* catch (error) { ...; return getSamplePlayers() }
Caught(F) ==
    [F EXCEPT !.state = "resolved", !.failed = TRUE, !.result = GetSamplePlayers]

\* the head of the for loop: page <= pages, then fetch(...) or the code
\* after the loop, return players
RequestPage(F, page) ==
    IF page <= F.pages
    THEN [F EXCEPT !.state = "fetching", !.page = page, !.requested = Append(@, page)]
    ELSE [F EXCEPT !.state = "resolved", !.page = page, !.result = F.players]

\* fetchTopPlayers(count) up to its first await
FetchTopPlayers(count) ==
    RequestPage([NoFetch EXCEPT !.count = count, !.pages = Pages(count)], 1)

\* the loop body from the answer of fetch to the delay
PageAnswered(F, answer) ==
    IF answer.kind # "ok"
    THEN Caught(F)
    ELSE LET r == PushFrom(F.players, answer.body, 1, F.count)
             G == [F EXCEPT !.players = r.players]
         IN  IF r.threw
             THEN Caught(G)
             ELSE IF Len(r.players) >= F.count
             THEN [G EXCEPT !.state = "resolved", !.result = r.players]
             ELSE [G EXCEPT !.state = "waiting"]

\* the delay of 100 ms is over: page++ and the head of the loop
DelayElapsed(F) == RequestPage(F, F.page + 1)

GameConstructed ==
    /\ score = 0
    /\ streak = 0
    /\ isPlaying = FALSE
    /\ projectiles = <<>>
    /\ progress = 0
    /\ isFinished = FALSE
    /\ steps = 0
    /\ glast = NoHandler
    /\ fetch = NoFetch

----------------------------------------------------------------------------
(* State machine *)

NoCall ==
    [op |-> "none", delta |-> 0, created |-> 0, advanced |-> 0, spawnPos |-> Zero3,
     hit |-> 0, player |-> 0, correct |-> FALSE, threw |-> FALSE]

SetPool(P) ==
    /\ targets' = P.targets
    /\ namePopups' = P.namePopups
    /\ avatarCache' = P.avatarCache
    /\ pending' = P.pending
    /\ preloading' = P.preloading
    /\ ready' = P.ready
    /\ spawnTimer' = P.spawnTimer
    /\ playerIndex' = P.playerIndex
    /\ gameTime' = P.gameTime
    /\ scene' = P.scene

PoolConstructed ==
    /\ configured = FALSE
    /\ players = <<>>
    /\ targets = <<>>
    /\ namePopups = <<>>
    /\ avatarCache = [u \in Urls |-> 0]
    /\ pending = [u \in Urls |-> 0]
    /\ preloading = [u \in Urls |-> 0]
    /\ ready = FALSE
    /\ spawnTimer = 0
    /\ playerIndex = 0
    /\ gameTime = 0
    /\ scene = {}
    /\ updates = 0
    /\ last = NoCall

Init ==
    /\ variant \in Variants
    /\ PoolConstructed
    /\ TickerConstructed(0)
    /\ GameConstructed

\* setPlayers(list), called once by Game.init before any tick or click
SetPlayersFrom(lists) ==
    /\ ~configured
    /\ \E list \in lists :
        /\ players' = list
        /\ SetPool(IF HasCache THEN PreloadAvatars(Pool, list) ELSE Pool)
    /\ configured' = TRUE
    /\ last' = [NoCall EXCEPT !.op = "setPlayers"]
    /\ UNCHANGED <<variant, updates>>
    /\ UNCHANGED <<tickerVars, gameVars>>

\* setPlayers with the players of fetchTopPlayers (src/api/ScoreSaber.ts)
SetPlayers == SetPlayersFrom(PlayerLists)

\* setPlayers with the players of the older fetchTopPlayers (part_000)
SetUntaggedPlayers == SetPlayersFrom(UntaggedLists)

\* start()
Start ==
    /\ configured
    /\ SetPool(StartPool(Pool))
    /\ last' = [NoCall EXCEPT !.op = "start"]
    /\ UNCHANGED <<variant, configured, players, updates>>
    /\ UNCHANGED <<tickerVars, gameVars>>

\* update(delta)
Update ==
    /\ configured
    /\ updates < MaxUpdates
    /\ \E delta \in Deltas, s \in SpawnSamples :
        LET Q == UpdatePool(Pool, delta, s.pos, s.velocity)
        IN  /\ SetPool(Q)
            /\ last' = [NoCall EXCEPT !.op = "update", !.delta = delta,
                                      !.created = Len(Q.targets) - Len(targets),
                                      !.advanced = Q.playerIndex - playerIndex,
                                      !.spawnPos = IF Len(Q.targets) > Len(targets)
                                                   THEN s.pos ELSE Zero3,
                                      !.threw = UpdateThrows(Pool, delta)]
    /\ updates' = updates + 1
    /\ UNCHANGED <<variant, configured, players>>
    /\ UNCHANGED <<tickerVars, gameVars>>

\* checkHit(query)
CheckHit ==
    /\ configured
    /\ \E q \in Queries :
        LET r == CheckHitPool(Pool, q)
        IN  /\ SetPool(r.pool)
            /\ last' = [NoCall EXCEPT !.op = "checkHit", !.hit = r.hit,
                                      !.player = r.player, !.correct = r.correct]
    /\ UNCHANGED <<variant, configured, players, updates>>
    /\ UNCHANGED <<tickerVars, gameVars>>

\* img.onload of a started request
AvatarLoaded ==
    /\ \E url \in Urls, kind \in RequestKinds :
        /\ InFlight(Pool, url, kind)
        /\ SetPool(OnLoad(Pool, url, kind))
    /\ UNCHANGED <<variant, configured, players, updates, last>>
    /\ UNCHANGED <<tickerVars, gameVars>>

\* img.onerror of a started request
AvatarFailed ==
    /\ \E url \in Urls, kind \in RequestKinds :
        /\ InFlight(Pool, url, kind)
        /\ SetPool(OnError(Pool, url, kind))
    /\ UNCHANGED <<variant, configured, players, updates, last>>
    /\ UNCHANGED <<tickerVars, gameVars>>

Next ==
    \/ SetPlayers
    \/ Start
    \/ Update
    \/ CheckHit
    \/ AvatarLoaded
    \/ AvatarFailed

Spec == Init /\ [][Next]_vars

\* The same program fed by the older fetchTopPlayers
NextUntagged ==
    \/ SetUntaggedPlayers
    \/ Start
    \/ Update
    \/ CheckHit
    \/ AvatarLoaded
    \/ AvatarFailed

SpecUntagged == Init /\ [][NextUntagged]_vars

\* setPlayers with the players fetchTopPlayers got from the API
SetFetchedPlayers == SetPlayersFrom(FetchedLists)

\* The same program fed by the API's players
NextFetched ==
    \/ SetFetchedPlayers
    \/ Start
    \/ Update
    \/ CheckHit
    \/ AvatarLoaded
    \/ AvatarFailed

SpecFetched == Init /\ [][NextFetched]_vars

----------------------------------------------------------------------------
(* Sessions of unbounded length *)

\* Positive deltas that reach the spawn interval
LiveDeltas == {d \in Deltas : d >= SpawnInterval}

\* The two timers read up to MaxClock: update() compares spawnTimer with the
\* spawn interval only and gameTime with nothing, so that later readings
\* are not told apart.
ClockUpTo(P) ==
    [P EXCEPT !.gameTime = Min(@, Max(MaxClock, SpawnInterval)),
              !.spawnTimer = Min(@, Max(MaxClock, SpawnInterval))]

\* update(delta), called without end; of the number of calls made only the
\* parity is kept
UpdateForever ==
    /\ configured
    /\ \E delta \in LiveDeltas, s \in SpawnSamples :
        LET Q == ClockUpTo(UpdatePool(Pool, delta, s.pos, s.velocity))
        IN  /\ SetPool(Q)
            /\ last' = [NoCall EXCEPT !.op = "update", !.delta = delta,
                                      !.created = Len(Q.targets) - Len(targets),
                                      !.advanced = Q.playerIndex - playerIndex,
                                      !.spawnPos = IF Len(Q.targets) > Len(targets)
                                                   THEN s.pos ELSE Zero3,
                                      !.threw = UpdateThrows(Pool, delta)]
    /\ updates' = 1 - updates
    /\ UNCHANGED <<variant, configured, players>>
    /\ UNCHANGED <<tickerVars, gameVars>>

\* one more update() call has been made: the steps of UpdateForever, and
\* no others, are of this kind
UpdateCalled ==
    /\ configured
    /\ updates' = 1 - updates

\* start(), as the first click of a session calls it
StartOnce ==
    /\ last.op = "setPlayers"
    /\ Start

\* One session: the players are set, the first click starts it, and then
\* frames and shots follow in any order. The avatar requests stay
\* unanswered (their completion touches the cache only).
NextForever ==
    \/ SetPlayers
    \/ StartOnce
    \/ UpdateForever
    \/ CheckHit

\* The frame loop keeps calling update: an update is always possible once
\* the players are set, and it is not postponed for ever.
SpecForever == Init /\ [][NextForever]_vars /\ WF_updates(UpdateCalled)

----------------------------------------------------------------------------
(* The Game: clicks and frames *)

\* The list Game.init hands to setPlayers: one player of each colour, or as
\* many players as the streak needs for its first bonus
GameLists ==
    IF variant = "colour"
    THEN {PlayerList(Cardinality(Colours))}
    ELSE {PlayerList(StreakStep)}

\* the deltas of the ticks followed: those that spawn, and one that takes
\* the rail to its end
GameDeltas ==
    (IF variant = "colour" THEN LiveDeltas ELSE {SpawnInterval}) \cup {RailDuration}

\* Number of update() calls followed: a session of the colour revision is
\* followed for fewer frames than one of the ray revisions, which has no
\* projectiles in flight
StepBudget == IF variant = "colour" THEN MaxFrames ELSE MaxSteps

\* the spawn that flies straight down the tunnel
GameSamples == {s \in SpawnSamples : s.velocity[1] = 0}

\* direction.multiplyScalar(80), for a click in line with the tunnel
ShotVelocity == <<0, 0, -ShotSpeed>>

\* Camera positions a shot is fired from: the origin, and the places from
\* which the projectile is at an alive target after a frame of one spawn
\* interval
ShotOrigins ==
    {Zero3} \cup
    {VAdd(targets[i].pos,
          VScale(VAdd(targets[i].velocity, VScale(ShotVelocity, -1)), SpawnInterval)) :
        i \in AliveTargets(Pool)}

SetWorld(W) ==
    /\ SetPool(W.p)
    /\ score' = W.g.score
    /\ streak' = W.g.streak
    /\ isPlaying' = W.g.isPlaying
    /\ projectiles' = W.g.projectiles
    /\ progress' = W.r.progress
    /\ isFinished' = W.r.isFinished

Handled(op, W) ==
    [op |-> op, hits |-> W.hits, wrong |-> W.wrong, left |-> W.left,
     points |-> W.points, over |-> W.over, credits |-> W.credits]

\* Game.init(): the players are set and update is subscribed to the ticker
GameInit ==
    /\ ~configured
    /\ \E list \in GameLists :
        /\ players' = list
        /\ SetPool(IF HasCache THEN PreloadAvatars(Pool, list) ELSE Pool)
    /\ configured' = TRUE
    /\ callbacks' = Append(callbacks, "update")
    /\ last' = [NoCall EXCEPT !.op = "setPlayers"]
    /\ glast' = [NoHandler EXCEPT !.op = "init"]
    /\ UNCHANGED <<variant, updates, now, lastTime, isRunning, rafs, lastTick, ticks,
                   score, streak, isPlaying, projectiles, progress, isFinished, steps,
                   fetch>>

\* a click while no session runs
ClickStart ==
    /\ configured
    /\ ~isPlaying
    /\ \E color \in Colours, origin \in ShotOrigins, q \in Queries :
        LET W == OnClick(World, color, origin, ShotVelocity, q)
        IN  /\ SetWorld(W)
            /\ glast' = Handled("start", W)
    /\ last' = [NoCall EXCEPT !.op = "start"]
    /\ UNCHANGED <<variant, configured, players, updates, tickerVars, steps, fetch>>

\* a click during a session of the ray revisions: shoot(x, y)
ClickRay ==
    /\ configured
    /\ isPlaying
    /\ variant # "colour"
    /\ \E q \in Queries :
        LET W == OnClick(World, "red", Zero3, ShotVelocity, q)
        IN  /\ SetWorld(W)
            /\ glast' = Handled("shoot", W)
    /\ last' = [NoCall EXCEPT !.op = "checkHit", !.hit = glast'.hits]
    /\ UNCHANGED <<variant, configured, players, updates, tickerVars, steps, fetch>>

\* a left or right click during a session of the colour revision:
\* shoot(x, y, color)
ClickColour ==
    /\ configured
    /\ isPlaying
    /\ variant = "colour"
    /\ Len(projectiles) < MaxShots
    /\ \E color \in Colours, origin \in ShotOrigins :
        LET W == OnClick(World, color, origin, ShotVelocity, Zero3)
        IN  /\ SetWorld(W)
            /\ glast' = Handled("shoot", W)
    /\ last' = NoCall
    /\ UNCHANGED <<variant, configured, players, updates, tickerVars, steps, fetch>>

\* a tick during a session: update(delta)
GameTick ==
    /\ configured
    /\ isPlaying
    /\ steps < StepBudget
    /\ \E delta \in GameDeltas, s \in GameSamples :
        LET W == UpdateGame(World, delta, s.pos, s.velocity)
        IN  /\ SetWorld(W)
            /\ glast' = Handled("update", W)
            /\ last' = [NoCall EXCEPT !.op = "update", !.delta = delta]
    /\ steps' = steps + 1
    /\ UNCHANGED <<variant, configured, players, updates, tickerVars, fetch>>

\* a tick while no session runs: update(delta) returns at its test of
\* isPlaying
IdleTick ==
    /\ configured
    /\ ~isPlaying
    /\ \E delta \in GameDeltas, s \in GameSamples :
        LET W == UpdateGame(World, delta, s.pos, s.velocity)
        IN  /\ SetWorld(W)
            /\ glast' = Handled("idle", W)
    /\ last' = NoCall
    /\ UNCHANGED <<variant, configured, players, updates, tickerVars, steps, fetch>>

NextGame ==
    \/ GameInit
    \/ ClickStart
    \/ IdleTick
    \/ ClickRay
    \/ ClickColour
    \/ GameTick

SpecGame == Init /\ [][NextGame]_vars

----------------------------------------------------------------------------
(* The rail: sessions followed from the first click to their end *)

\* the deltas of the ticks of a whole session
RailDeltas == IF variant = "colour" THEN LiveDeltas ELSE {SpawnInterval}

\* a tick during a session, update(delta); of the number of calls made only
\* the parity is kept
RailTick ==
    /\ configured
    /\ isPlaying
    /\ \E delta \in RailDeltas, s \in GameSamples :
        LET W == UpdateGame(World, delta, s.pos, s.velocity)
        IN  /\ SetWorld(W)
            /\ glast' = Handled("update", W)
            /\ last' = [NoCall EXCEPT !.op = "update", !.delta = delta]
    /\ updates' = 1 - updates
    /\ UNCHANGED <<variant, configured, players, tickerVars, steps, fetch>>

\* one more tick of a session has run: the steps of RailTick, and no
\* others, are of this kind
TickCalled ==
    /\ configured
    /\ isPlaying
    /\ updates' = 1 - updates

\* rail.update(delta) called on the Rail object itself while no session
\* runs
RailUpdated ==
    /\ configured
    /\ ~isPlaying
    /\ \E delta \in RailDeltas :
        /\ progress' = RailUpdate(Rail, delta).progress
        /\ isFinished' = RailUpdate(Rail, delta).isFinished
        /\ last' = [NoCall EXCEPT !.delta = delta]
    /\ glast' = [NoHandler EXCEPT !.op = "rail"]
    /\ UNCHANGED <<variant, configured, players, updates, tickerVars, steps,
                   score, streak, isPlaying, projectiles, fetch>>
    /\ UNCHANGED <<targets, namePopups, avatarCache, pending, preloading, ready,
                   spawnTimer, playerIndex, gameTime, scene>>

\* the click that starts the first session
FirstClick ==
    /\ gameTime = 0
    /\ ClickStart

\* One session, from the first click to its end and the pause after it. The
\* avatar requests stay unanswered (their completion touches the cache
\* only).
NextRail ==
    \/ GameInit
    \/ FirstClick
    \/ IdleTick
    \/ RailTick
    \/ RailUpdated

\* The ticker calls update once per animation frame for as long as the page
\* lives: during a session a tick is always possible and is not postponed
\* for ever.
SpecRail == Init /\ [][NextRail]_vars /\ WF_updates(TickCalled)

----------------------------------------------------------------------------
(* The Ticker on its own *)

SetTicker(T) ==
    /\ lastTime' = T.lastTime
    /\ isRunning' = T.isRunning
    /\ rafs' = T.rafs
    /\ callbacks' = T.callbacks
    /\ lastTick' = T.lastTick

poolVars == <<variant, configured, players, targets, namePopups, avatarCache,
              pending, preloading, ready, spawnTimer, playerIndex, gameTime,
              scene, updates, last>>

InitTicker ==
    /\ variant = "plain"
    /\ PoolConstructed
    /\ \E t \in StartTimes : TickerConstructed(t)
    /\ GameConstructed

\* the browser runs one requested animation frame callback, gap
\* milliseconds after the clock was last read
Frame ==
    /\ rafs > 0
    /\ ticks < MaxTicks
    /\ \E gap \in FrameGaps :
        /\ now' = now + gap
        /\ SetTicker(TickAt([Ticker EXCEPT !.rafs = @ - 1], now + gap))
    /\ ticks' = ticks + 1
    /\ UNCHANGED <<poolVars, gameVars>>

\* ticker.start()
TickerStart ==
    /\ ticks < MaxTicks
    /\ \E gap \in FrameGaps :
        /\ now' = now + gap
        /\ SetTicker(StartTicker(Ticker, now + gap))
    /\ ticks' = ticks + 1
    /\ UNCHANGED <<poolVars, gameVars>>

\* ticker.stop()
TickerStop ==
    /\ SetTicker(StopTicker(Ticker))
    /\ UNCHANGED <<now, ticks, poolVars, gameVars>>

\* ticker.subscribe(callback), as Game.init does once
Subscribe ==
    /\ callbacks = <<>>
    /\ SetTicker([Ticker EXCEPT !.callbacks = Append(@, "update")])
    /\ UNCHANGED <<now, ticks, poolVars, gameVars>>

\* ticker.unsubscribe(callback)
Unsubscribe ==
    /\ SetTicker(Unsubscribed(Ticker, "update"))
    /\ UNCHANGED <<now, ticks, poolVars, gameVars>>

NextTicker ==
    \/ Frame
    \/ TickerStart
    \/ TickerStop
    \/ Subscribe
    \/ Unsubscribe

SpecTicker == InitTicker /\ [][NextTicker]_vars

----------------------------------------------------------------------------
(* The subscribers of the Ticker *)

\* ticker.subscribe(callback) for a callback that is not subscribed
SubscribeAny ==
    /\ \E callback \in Callbacks :
        /\ IndexOf(callbacks, callback) = 0
        /\ SetTicker([Ticker EXCEPT !.callbacks = Append(@, callback)])
    /\ UNCHANGED <<now, ticks, poolVars, gameVars>>

\* ticker.unsubscribe(callback) between two ticks
UnsubscribeAny ==
    /\ \E callback \in Callbacks : SetTicker(Unsubscribed(Ticker, callback))
    /\ UNCHANGED <<now, ticks, poolVars, gameVars>>

NextSubscribers ==
    \/ Frame
    \/ SubscribeAny
    \/ UnsubscribeAny

SpecSubscribers == InitTicker /\ [][NextSubscribers]_vars

----------------------------------------------------------------------------
(* Fetching the players *)

\* the numbers of players asked for
FetchCounts ==
    {0, 1} \cup {p * PerPage : p \in 1..MaxPages} \cup
    {p * PerPage + 1 : p \in 1..(MaxPages - 1)}

FetchOthers ==
    <<variant, configured, players, targets, namePopups, avatarCache, pending,
      preloading, ready, spawnTimer, playerIndex, gameTime, scene, updates, last,
      tickerVars, score, streak, isPlaying, projectiles, progress, isFinished, steps,
      glast>>

\* fetchTopPlayers(count) is called
FetchCalled ==
    /\ fetch.state = "idle"
    /\ \E count \in FetchCounts : fetch' = FetchTopPlayers(count)
    /\ UNCHANGED FetchOthers

\* the API answers the page request
FetchAnswered ==
    /\ fetch.state = "fetching"
    /\ \E answer \in Answers(fetch.page) : fetch' = PageAnswered(fetch, answer)
    /\ UNCHANGED FetchOthers

\* the timer of the delay between two pages fires
FetchResumed ==
    /\ fetch.state = "waiting"
    /\ fetch' = DelayElapsed(fetch)
    /\ UNCHANGED FetchOthers

NextFetch ==
    \/ FetchCalled
    \/ FetchAnswered
    \/ FetchResumed

SpecFetch == Init /\ [][NextFetch]_vars

----------------------------------------------------------------------------
(* Properties *)

\* C1: a single update(delta) call creates at most one target and advances
\* playerIndex by at most 1, whatever the delta, in every variant.
C1_AtMostOneSpawnPerUpdate ==
    last.op = "update" =>
        /\ last.created \in {0, 1}
        /\ last.advanced \in {0, 1}

\* an update whose delta spans several spawn intervals has created one target
\* while further players were left
C1_Witness ==
    /\ last.op = "update"
    /\ last.delta >= 2 * SpawnInterval
    /\ last.created = 1
    /\ playerIndex < Len(players)

\* C2 as stated: while unconsumed players remain, the number of targets
\* created equals the number of whole spawn intervals elapsed since start().
C2_OnePerIntervalElapsed ==
    (configured /\ playerIndex < Len(players)) =>
        Len(targets) = gameTime \div SpawnInterval

\* C2 as amended: at least one spawn interval lies between two creations (the
\* time that was on the timer at a creation is dropped), so the number of
\* targets created is at most the number of whole intervals elapsed; and a
\* target is created in each update call at which the timer has reached the
\* interval while players remain.
C2_AtMostOnePerInterval ==
    /\ Len(targets) * SpawnInterval <= gameTime - spawnTimer
    /\ (last.op = "update" /\ last.created = 0 /\ playerIndex < Len(players)) =>
            spawnTimer < SpawnInterval
    /\ (last.op = "update" /\ last.created = 1) => spawnTimer = 0

\* fewer targets than intervals elapsed, with players left
C2_Witness ==
    /\ last.op = "update"
    /\ playerIndex < Len(players)
    /\ Len(targets) >= 1
    /\ Len(targets) < gameTime \div SpawnInterval

\* the pools reached from P by k calls update(0.5)
RECURSIVE HalfSecondRuns(_, _)
HalfSecondRuns(P, k) ==
    IF k = 0
    THEN {P}
    ELSE UNION {{UpdatePool(Q, SpawnIntervalColour, s.pos, s.velocity) : s \in SpawnSamples} :
                Q \in HalfSecondRuns(P, k - 1)}

\* C3: with N players and spawn interval 0.5 s, start() and N calls
\* update(0.5) create exactly N targets, the i-th for the i-th player, and
\* leave the cursor at N; no further update call creates a target.
C3_NPlayersNUpdates ==
    /\ (configured /\ variant = "colour") =>
        \A k \in 0..Len(players) :
            \A Q \in HalfSecondRuns(StartPool(Pool), k) :
                /\ Len(Q.targets) = k
                /\ Q.playerIndex = k
                /\ \A i \in 1..k : Q.targets[i].player = i
    /\ (configured /\ playerIndex = Len(players)) =>
        \A delta \in Deltas :
            LET s == CHOOSE s \in SpawnSamples : TRUE
                Q == UpdatePool(Pool, delta, s.pos, s.velocity)
            IN  Len(Q.targets) = Len(targets) /\ Q.playerIndex = playerIndex

\* two calls update(0.5) have created the targets of both players
C3_Witness ==
    /\ variant = "colour"
    /\ last.op = "update"
    /\ last.delta = SpawnIntervalColour
    /\ gameTime = 2 * SpawnIntervalColour
    /\ Len(players) = 2
    /\ playerIndex = 2
    /\ Len(targets) = 2

\* C4: start() resets the pool from any reachable state (no live target, no
\* popup, cursor 0, timer 0) and is idempotent.
C4_StartResets ==
    LET S == StartPool(Pool)
    IN  /\ \A i \in 1..Len(S.targets) : ~S.targets[i].alive
        /\ S.namePopups = <<>>
        /\ S.playerIndex = 0
        /\ S.spawnTimer = 0
        /\ StartPool(S) = S
        /\ last.op = "start" => Pool = S

\* start() has been called on a pool that had targets or popups on screen
C4_Witness ==
    /\ last.op = "start"
    /\ scene # {}
    /\ updates >= 2

\* C5: the target and popup sprites in the scene are exactly those of the
\* alive targets and of the popups of the pool.
C5_SceneMatchesPool ==
    scene = {targets[i].mesh : i \in {j \in 1..Len(targets) : targets[j].alive}}
            \cup {namePopups[i].mesh : i \in 1..Len(namePopups)}

\* C6: update(delta) moves every target that is alive when its loop runs
\* (one spawned in that call included) by velocity * delta; the velocity is
\* the one assigned at spawn and no call changes it; dead targets stay put.
C6_PositionIntegrates ==
    [][/\ \A i \in 1..Len(targets) :
            i <= Len(targets') => targets'[i].velocity = targets[i].velocity
       /\ updates' = updates + 1 =>
            \A i \in 1..Len(targets') :
                IF i > Len(targets)
                THEN /\ targets'[i].velocity \in {s.velocity : s \in SpawnSamples}
                     /\ targets'[i].pos =
                            VAdd(last'.spawnPos, VScale(targets'[i].velocity, last'.delta))
                ELSE IF targets[i].alive
                THEN targets'[i].pos =
                        VAdd(targets[i].pos, VScale(targets[i].velocity, last'.delta))
                ELSE targets'[i] = targets[i]]_vars

\* an update has spawned a target while an older target with a lateral drift
\* was alive, and both are still in flight
C6_Witness ==
    /\ last.op = "update"
    /\ last.created = 1
    /\ Len(targets) = 2
    /\ targets[1].alive /\ targets[2].alive
    /\ targets[1].velocity[1] # 0
    /\ targets[2].pos # last.spawnPos

\* C7: update(delta) retires a live target as a miss exactly when its depth
\* after integration is > 5: it is then dead, its sprite is out of the
\* scene, the number of live targets drops by one, and no popup is created.
C7_MissIffPastThreshold ==
    configured =>
        \A delta \in Deltas, s \in SpawnSamples :
            LET Q == UpdatePool(Pool, delta, s.pos, s.velocity)
                moved == {i \in 1..Len(Q.targets) : i > Len(targets) \/ targets[i].alive}
                missed == {i \in moved : Q.targets[i].pos[3] > PassZ}
                liveBefore == {i \in 1..Len(targets) : targets[i].alive}
                liveAfter == {i \in 1..Len(Q.targets) : Q.targets[i].alive}
            IN  /\ liveAfter = moved \ missed
                /\ \A i \in missed : Q.targets[i].mesh \notin Q.scene
                /\ \A i \in liveAfter : Q.targets[i].mesh \in Q.scene
                /\ Cardinality(liveAfter) =
                     Cardinality(liveBefore) + (Len(Q.targets) - Len(targets))
                       - Cardinality(missed)
                /\ Len(Q.namePopups) <= Len(namePopups)
                /\ {p.mesh : p \in SeqRange(Q.namePopups)}
                     \subseteq {p.mesh : p \in SeqRange(namePopups)}

\* an update has retired a target that passed the camera, and left no popup
C7_Witness ==
    /\ last.op = "update"
    /\ \E i \in 1..Len(targets) :
        /\ ~targets[i].alive
        /\ targets[i].pos[3] > PassZ
        /\ targets[i].retired = 1
        /\ targets[i].mesh \notin scene
    /\ \E i \in 1..Len(targets) : targets[i].alive
    /\ namePopups = <<>>

\* C8: a dead target is never made alive again, moved or retired again by
\* update, checkHit or an avatar load, and checkHit returns alive targets only.
C8_DeadStaysDead ==
    [][/\ \A i \in 1..Len(targets) :
            (~targets[i].alive /\ i <= Len(targets')) => targets'[i] = targets[i]
       /\ (last'.op = "checkHit" /\ last'.hit # 0 /\ targets' # targets) =>
            targets[last'.hit].alive]_vars

\* an update has run over a target that a hit had retired before
C8_Witness ==
    /\ last.op = "update"
    /\ \E i \in 1..Len(targets) :
        /\ ~targets[i].alive
        /\ targets[i].retired = 1
        /\ targets[i].pos[3] <= PassZ
    /\ \E i \in 1..Len(targets) : targets[i].alive

\* C9: a checkHit call that returns a result turns exactly one target from
\* alive to dead, the one whose player it returns, and leaves every other
\* target as it was; a call that returns null retires none.
C9_HitRetiresExactlyOne ==
    /\ \A q \in Queries :
        LET r == CheckHitPool(Pool, q)
            T == r.pool.targets
            flipped == {i \in 1..Len(targets) : targets[i].alive /\ ~T[i].alive}
        IN  /\ Len(T) = Len(targets)
            /\ r.hit # 0 => (flipped = {r.hit} /\ r.player = targets[r.hit].player)
            /\ r.hit = 0 => flipped = {}
            /\ \A i \in 1..Len(targets) : i \notin flipped => T[i] = targets[i]
    /\ (last.op = "checkHit" /\ last.hit # 0) =>
        /\ ~targets[last.hit].alive
        /\ targets[last.hit].retired = 1
        /\ targets[last.hit].player = last.player

\* a checkHit has retired one of two targets that lay within reach of the
\* same query, and the other one is still alive
C9_Witness ==
    /\ last.op = "checkHit"
    /\ last.hit # 0
    /\ \E j \in 1..Len(targets) :
        /\ targets[j].alive
        /\ [pos |-> targets[j].pos, color |-> "none"] \in
              {[pos |-> q.pos, color |-> "none"] : q \in Queries}
        /\ IF variant = "colour"
           THEN DistSq(targets[j].pos, targets[last.hit].pos) < HitRadius * HitRadius
           ELSE RayMeets(<<targets[j].pos[1], targets[j].pos[2], 0>>, targets[last.hit])

\* C10: two consecutive checkHit calls with the same query never match the
\* same target: the second returns another target's player or null.
C10_SameQueryNeverSameTarget ==
    \A q \in Queries :
        LET first == CheckHitPool(Pool, q)
            second == CheckHitPool(first.pool, q)
        IN  first.hit # 0 =>
                /\ second.hit # first.hit
                /\ second.hit # 0 => second.player # first.player

\* a checkHit has retired a target, and the same query asked again matches
\* another target
C10_Witness ==
    /\ last.op = "checkHit"
    /\ last.hit # 0
    /\ \E q \in Queries :
        /\ (variant = "colour" =>
              DistSq(targets[last.hit].pos, q.pos) < HitRadius * HitRadius)
        /\ (variant # "colour" => RayMeets(q.pos, targets[last.hit]))
        /\ CheckHitPool(Pool, q).hit \notin {0, last.hit}

C12_NullIffNoneWithinRadius ==
    variant = "colour" =>
        /\ \A q \in Queries :
            LET r == CheckHitPool(Pool, q)
                within == {i \in 1..Len(targets) :
                             /\ targets[i].alive
                             /\ DistSq(targets[i].pos, q.pos) < HitRadius * HitRadius}
            IN  /\ r.hit = 0 <=> within = {}
                /\ r.hit = 0 => r.pool = Pool
        /\ \A i \in 1..Len(targets), c \in Colours :
            LET At(d) == [pos |-> VAdd(targets[i].pos, <<0, 0, d>>), color |-> c]
            IN  targets[i].alive =>
                    /\ CheckHitPool(Pool, At(29)).hit # 0
                    /\ CheckHitPool(Pool, At(30)).hit # i
                    /\ CheckHitPool(Pool, At(31)).hit # i

\* a proximity checkHit has returned null with two targets in flight and
\* has left targets and popups alone
C12_Witness ==
    /\ variant = "colour"
    /\ last.op = "checkHit"
    /\ last.hit = 0
    /\ namePopups = <<>>
    /\ Len(targets) = 2
    /\ \A i \in 1..Len(targets) :
        /\ targets[i].alive
        /\ targets[i].mesh \in scene
        /\ targets[i].retired = 0

\* C13: the correct flag of a proximity match says whether the matched
\* target's player colour equals the query colour, and the target is retired
\* (dead, sprite out of the scene) whatever the flag.
C13_WrongColourStillConsumes ==
    variant = "colour" =>
        /\ \A q \in Queries :
            LET r == CheckHitPool(Pool, q)
            IN  r.hit # 0 =>
                    /\ r.correct = (players[targets[r.hit].player].color = q.color)
                    /\ ~r.pool.targets[r.hit].alive
                    /\ targets[r.hit].mesh \notin r.pool.scene
        /\ (last.op = "checkHit" /\ last.hit # 0) =>
            /\ ~targets[last.hit].alive
            /\ targets[last.hit].mesh \notin scene

\* a proximity checkHit with the wrong colour has retired its target
C13_Witness ==
    /\ variant = "colour"
    /\ last.op = "checkHit"
    /\ last.hit # 0
    /\ ~last.correct
    /\ ~targets[last.hit].alive
    /\ targets[last.hit].mesh \notin scene

\* C14: the popup of a proximity hit carries the matched target's own player
\* and the target's position at the hit, whatever the query's colour and
\* position.
C14_PopupCarriesTargetsPlayer ==
    variant = "colour" =>
        /\ \A q \in Queries :
            LET r == CheckHitPool(Pool, q)
                n == Len(r.pool.namePopups)
            IN  r.hit # 0 =>
                    /\ n = Len(namePopups) + 1
                    /\ r.pool.namePopups[n].player = targets[r.hit].player
                    /\ r.pool.namePopups[n].pos = targets[r.hit].pos
        /\ (last.op = "checkHit" /\ last.hit # 0) =>
            /\ namePopups # <<>>
            /\ namePopups[Len(namePopups)].player = targets[last.hit].player
            /\ namePopups[Len(namePopups)].pos = targets[last.hit].pos

\* a wrong-colour shot at the first of two targets has left a popup of that
\* target's player at that target's position
C14_Witness ==
    /\ variant = "colour"
    /\ last.op = "checkHit"
    /\ last.hit # 0
    /\ ~last.correct
    /\ namePopups # <<>>
    /\ namePopups[Len(namePopups)].player = last.player
    /\ namePopups[Len(namePopups)].pos = targets[last.hit].pos
    /\ last.player # playerIndex

\* C15: every checkHit call that returns a result adds exactly one feedback
\* popup (name popup or soul), in every revision and whether or not the
\* target's avatar was in the cache when it was spawned.
C15_HitSpawnsFeedback ==
    \A q \in Queries :
        LET r == CheckHitPool(Pool, q)
        IN  r.hit # 0 => Len(r.pool.namePopups) = Len(namePopups) + 1

\* C16: at most one image request is ever in flight for one URL, however
\* preload, spawn-time lookahead and players sharing a URL interleave.
C16_OneRequestPerUrl ==
    \A u \in Urls : pending[u] <= 1

\* C17: all loads of one URL resolve to one image object, the one the cache
\* holds: the avatar image a target took from the cache at its spawn is the
\* image the cache holds for its player's URL.
C17_OneImagePerUrl ==
    \A i \in 1..Len(targets) :
        targets[i].avatarImage # 0 =>
            targets[i].avatarImage = avatarCache[players[targets[i].player].profilePicture]

\* list lengths at which the preload of the first 50 players is probed
PreloadProbe == {0, 1, 2, 50, 51}

\* C18: preloadAvatars starts one attempt for each of the first
\* min(50, number of players) players and is ready only once every one of
\* them has settled; it gets ready also when attempts fail, and a failed
\* attempt adds no cache entry.
C18_PreloadWaitsForAll ==
    HasCache =>
        /\ configured => (ready <=> \A u \in Urls : preloading[u] = 0)
        /\ ~configured => ~ready
        /\ ~configured =>
            \A n \in PreloadProbe :
                LET Q == PreloadAvatars(Pool, PlayerList(n))
                    started == Q.pending[UrlOf(1)]
                IN  /\ started = (IF n <= 50 THEN n ELSE 50)
                    /\ Q.preloading[UrlOf(1)] = started
                    /\ Q.ready <=> n = 0
        /\ \A url \in Urls, kind \in RequestKinds :
            InFlight(Pool, url, kind) =>
                LET Q == OnError(Pool, url, kind)
                    left == IF kind = "preload" THEN preloading[url] - 1
                            ELSE preloading[url]
                IN  /\ Q.avatarCache = avatarCache
                    /\ Q.targets = targets /\ Q.namePopups = namePopups
                    /\ Q.ready <=> (left = 0 /\ \A u \in Urls \ {url} : preloading[u] = 0)

\* the preload of two players is over although both attempts failed, and
\* the cache has no entry
C18_Witness ==
    /\ HasCache
    /\ Len(players) = 2
    /\ ready
    /\ \A u \in Urls : avatarCache[u] = 0 /\ pending[u] = 0
    /\ playerIndex = 0

\* C19: update(delta) never raises an error, whatever the configured player
\* list (players without the optional colour tag included) and the delta.
C19_UpdateNeverThrows ==
    ~last.threw

\* C20: once the cursor equals the number of players, an update call creates
\* no target and raises no error, the cursor keeps its value under update,
\* checkHit and avatar events, and alive targets and popups are advanced as
\* ever.
C20_ExhaustionIsNotAnError ==
    (configured /\ playerIndex = Len(players)) =>
        /\ \A delta \in Deltas :
            LET s == CHOOSE s \in SpawnSamples : TRUE
                Q == UpdatePool(Pool, delta, s.pos, s.velocity)
                kept == {j \in 1..Len(namePopups) : namePopups[j].lifetime > delta}
            IN  /\ ~UpdateThrows(Pool, delta)
                /\ Len(Q.targets) = Len(targets)
                /\ Q.playerIndex = playerIndex
                /\ \A i \in 1..Len(targets) :
                      IF targets[i].alive
                      THEN Q.targets[i].pos =
                              VAdd(targets[i].pos, VScale(targets[i].velocity, delta))
                      ELSE Q.targets[i] = targets[i]
                /\ Len(Q.namePopups) = Cardinality(kept)
                /\ \A j \in kept :
                      \E p \in SeqRange(Q.namePopups) :
                          /\ p.mesh = namePopups[j].mesh
                          /\ p.lifetime = namePopups[j].lifetime - delta
                          /\ p.pos = VAdd(namePopups[j].pos,
                                          VScale(namePopups[j].velocity, delta))
        /\ \A q \in Queries : CheckHitPool(Pool, q).pool.playerIndex = playerIndex
        /\ \A url \in Urls, kind \in RequestKinds :
            InFlight(Pool, url, kind) =>
                /\ OnLoad(Pool, url, kind).playerIndex = playerIndex
                /\ OnError(Pool, url, kind).playerIndex = playerIndex

\* the only player's target was spawned by the first update; the second
\* update, made with the cursor at the end of the list, has created nothing
\* and has moved that target on
C20_Witness ==
    /\ last.op = "update"
    /\ updates = 2
    /\ Len(players) = 1
    /\ playerIndex = 1
    /\ last.created = 0
    /\ ~last.threw
    /\ Len(targets) = 1
    /\ targets[1].alive
    /\ targets[1].pos \notin {VAdd(s.pos, VScale(s.velocity, d)) :
                                s \in SpawnSamples, d \in Deltas}

\* C21: the cursor never decreases except by start(), which puts it back to
\* 0 with an empty pool; the k-th target of the pool is the k-th player's,
\* so no player has two targets in one session.
C21_PlayersConsumedInOrder ==
    [][/\ \/ playerIndex' >= playerIndex
          \/ (last'.op = "start" /\ playerIndex' = 0 /\ targets' = <<>>)
       /\ Len(targets') <= playerIndex'
       /\ \A k \in 1..Len(targets') : targets'[k].player = k
       /\ \A k \in 1..Len(targets) :
            k <= Len(targets') =>
                (targets'[k].player = targets[k].player \/ last'.op = "start")]_vars

\* a second session, opened by start() while the first session's target was
\* in flight, has created its first target, again for the first player
C21_Witness ==
    /\ last.op = "update"
    /\ last.created = 1
    /\ Len(players) = 2
    /\ Len(targets) = 1
    /\ targets[1].player = 1
    /\ playerIndex = 1
    /\ updates = 2
    /\ \E m \in scene : m # targets[1].mesh

\* C22: update(delta) takes delta off every popup's lifetime, sets its
\* opacity to max(0, lifetime / duration) and removes in that call every
\* popup whose lifetime is then <= 0, none skipped; every popup in the pool
\* has a lifetime > 0 and an opacity in (0, 1].
C22_PopupsDecayAndExpire ==
    /\ \A p \in SeqRange(namePopups) :
        /\ p.lifetime > 0 /\ p.lifetime <= FeedbackLifetime
        /\ p.opacity > 0 /\ p.opacity <= FeedbackLifetime
        /\ p.opacity = p.lifetime
        /\ p.mesh \in scene
    /\ configured =>
        \A delta \in Deltas :
            LET s == CHOOSE s \in SpawnSamples : TRUE
                Q == UpdatePool(Pool, delta, s.pos, s.velocity)
                kept == {j \in 1..Len(namePopups) : namePopups[j].lifetime - delta > 0}
                gone == (1..Len(namePopups)) \ kept
            IN  UpdateThrows(Pool, delta) \/
                /\ Len(Q.namePopups) = Cardinality(kept)
                /\ \A j \in kept :
                      \E p \in SeqRange(Q.namePopups) :
                          /\ p.mesh = namePopups[j].mesh
                          /\ p.lifetime = namePopups[j].lifetime - delta
                          /\ p.opacity = Max(0, namePopups[j].lifetime - delta)
                /\ \A j \in gone : namePopups[j].mesh \notin Q.scene

\* an update longer than the popup's lifetime has removed the popup that a
\* hit had created
C22_Witness ==
    /\ variant = "colour"
    /\ last.op = "update"
    /\ last.delta >= PopupLifetime
    /\ namePopups = <<>>
    /\ \E i \in 1..Len(targets) :
        /\ ~targets[i].alive
        /\ targets[i].pos[3] <= PassZ
    /\ \A i \in 1..Len(targets) : ~targets[i].alive => targets[i].mesh \notin scene
    /\ Cardinality(scene) <= 1

\* C23: an avatar load that completes, with success or failure, changes the
\* avatar cache and nothing else of the pool: targets (avatar reference,
\* position, velocity, alive flag), popups, cursor, timers and scene stay as
\* they are, whenever it completes.
C23_AvatarLoadTouchesCacheOnly ==
    \A url \in Urls, kind \in RequestKinds :
        InFlight(Pool, url, kind) =>
            \A Q \in {OnLoad(Pool, url, kind), OnError(Pool, url, kind)} :
                /\ Q.targets = targets
                /\ Q.namePopups = namePopups
                /\ Q.playerIndex = playerIndex
                /\ Q.spawnTimer = spawnTimer
                /\ Q.gameTime = gameTime
                /\ Q.scene = scene
                /\ \A u \in Urls \ {url} : Q.avatarCache[u] = avatarCache[u]

\* the avatar of a player has arrived while that player's target, spawned
\* without it, is in flight: the target still has no avatar
C23_Witness ==
    /\ HasCache
    /\ \E i \in 1..Len(targets) :
        /\ targets[i].alive
        /\ targets[i].avatarImage = 0
        /\ avatarCache[players[targets[i].player].profilePicture] # 0
    /\ \A u \in Urls : pending[u] = 0

\* C24: every delta the Ticker passes to its subscribers is at most 0.1 s
\* (100 ms), however much real time elapsed since the previous tick, and is
\* never negative: it is the elapsed time when that is below the cap and the
\* cap otherwise.
C24_TickDeltaCapped ==
    /\ 0 <= lastTick.delta
    /\ lastTick.delta <= DeltaCap
    /\ lastTick.elapsed >= 0
    /\ lastTick.delta = IF lastTick.elapsed < DeltaCap THEN lastTick.elapsed ELSE DeltaCap
    /\ lastTime <= now

\* A tick that came five seconds after the previous one handed the cap to a
\* subscriber.
C24_Witness ==
    /\ lastTick.elapsed = 5000
    /\ lastTick.delta = DeltaCap
    /\ lastTick.called = 1
    /\ isRunning
    /\ lastTime = now

\* C25: the ray-strategy checkHit considers only alive targets and yields
\* zero or one hit per call: when the ray meets at least one alive target it
\* retires and returns the one at the smallest ray distance, otherwise it
\* returns null and retires nothing.
C25_RayHitsNearestAlive ==
    variant # "colour" =>
        \A q \in Queries :
            LET r == CheckHitPool(Pool, q)
                T == r.pool.targets
                met == {i \in 1..Len(targets) : targets[i].alive /\ RayMeets(q.pos, targets[i])}
                retired == {i \in 1..Len(targets) : targets[i].alive /\ ~T[i].alive}
            IN  /\ Len(T) = Len(targets)
                /\ met = {} => (r.hit = 0 /\ retired = {} /\ r.pool = Pool)
                /\ met # {} =>
                    /\ r.hit \in met
                    /\ \A j \in met :
                         RayDistance(q.pos, targets[r.hit]) <= RayDistance(q.pos, targets[j])
                    /\ retired = {r.hit}
                    /\ r.player = targets[r.hit].player

\* A ray checkHit has retired a target while another alive target, met by
\* the same ray, lies farther down the tunnel.
C25_Witness ==
    /\ variant # "colour"
    /\ last.op = "checkHit"
    /\ last.hit # 0
    /\ ~targets[last.hit].alive
    /\ \E j \in 1..Len(targets), q \in Queries :
        /\ targets[j].alive
        /\ RayMeets(q.pos, targets[j])
        /\ RayMeets(q.pos, targets[last.hit])
        /\ RayDistance(q.pos, targets[j]) > RayDistance(q.pos, targets[last.hit])

\* C26: in the revisions that load avatars, each spawn issues one avatar
\* load for the player at the cursor after the spawn whenever there is one,
\* and for no other player; the failure of such a load changes nothing but
\* the request's own bookkeeping and does not make update throw.
C26_LookaheadOfOne ==
    HasCache =>
        /\ \A s \in SpawnSamples :
            playerIndex < Len(players) =>
                LET Q == SpawnTarget(Pool, s.pos, s.velocity)
                    loaded == IF Q.playerIndex < Len(players)
                              THEN {players[Q.playerIndex + 1].profilePicture}
                              ELSE {}
                IN  /\ Q.playerIndex = playerIndex + 1
                    /\ Q.avatarCache = avatarCache
                    /\ Q.preloading = preloading
                    /\ \A u \in Urls :
                        Q.pending[u] = IF u \in loaded /\ avatarCache[u] = 0
                                       THEN pending[u] + 1
                                       ELSE pending[u]
        /\ \A u \in Urls :
            InFlight(Pool, u, "lookahead") =>
                LET Q == OnError(Pool, u, "lookahead")
                IN  /\ Q = [Pool EXCEPT !.pending[u] = @ - 1]
                    /\ \A delta \in Deltas : UpdateThrows(Q, delta) = UpdateThrows(Pool, delta)
        /\ last.op = "update" /\ last.created = 1 => ~last.threw

\* The first of two players has just been spawned, and the only avatar
\* request in flight that setPlayers did not start is for the URL of the
\* second.
C26_Witness ==
    /\ HasCache
    /\ last.op = "update"
    /\ last.created = 1
    /\ Len(players) = 2
    /\ playerIndex = 1
    /\ players[1].profilePicture # players[2].profilePicture
    /\ InFlight(Pool, players[2].profilePicture, "lookahead")
    /\ ~InFlight(Pool, players[1].profilePicture, "lookahead")
    /\ avatarCache[players[1].profilePicture] = 0

C28_ClosestWithinRadius ==
    variant = "colour" =>
        \A q \in Queries :
            LET r == CheckHitPool(Pool, q)
                within == {i \in 1..Len(targets) :
                             /\ targets[i].alive
                             /\ DistSq(targets[i].pos, q.pos) < HitRadius * HitRadius}
            IN  r.hit # 0 =>
                    /\ r.hit \in within
                    /\ ~r.pool.targets[r.hit].alive
                    /\ \A j \in within :
                         DistSq(targets[r.hit].pos, q.pos) <= DistSq(targets[j].pos, q.pos)

\* C29: on a hit (ray revisions) or a hit of the right colour (colour
\* revision) the streak is incremented by 1 first and then 1 + floor(streak /
\* 5) points are added to the score; the score never decreases during a
\* session and is set back to 0, with the streak, only by Game.start().
C29_ScoreFollowsStreak ==
    [][/\ score' >= score \/ glast'.op = "start"
       /\ glast'.op = "start" => (score' = 0 /\ streak' = 0)
       /\ glast'.op # "start" => score' = score + glast'.points
       /\ glast'.hits = 0 => (score' = score \/ glast'.op = "start")
       /\ (glast'.op = "shoot" /\ variant # "colour") =>
            IF glast'.hits = 1
            THEN /\ streak' = streak + 1
                 /\ score' = score + 1 + ((streak + 1) \div StreakStep)
            ELSE /\ glast'.hits = 0
                 /\ streak' = 0
       /\ (glast'.op = "update" /\ glast'.hits = 1 /\ glast'.wrong = 0) =>
            /\ streak' = streak + 1
            /\ score' = score + 1 + ((streak + 1) \div StreakStep)
       /\ \A s \in 0..(2 * StreakStep) :
            LET W == OnHit([World EXCEPT !.g.streak = s], TRUE)
            IN  /\ W.g.streak = s + 1
                /\ W.g.score = score + 1 + ((s + 1) \div StreakStep)
      ]_vars

\* The fifth hit in a row of a session of a ray revision has just scored
\* two points.
C29_Witness ==
    /\ variant # "colour"
    /\ glast.op = "shoot"
    /\ glast.hits = 1
    /\ glast.points = 2
    /\ streak = StreakStep
    /\ score = StreakStep + 1
    /\ isPlaying

\* C30: in the colour revision a hit of the wrong colour awards no points
\* and sets the streak to 0 while the target and the projectile are both
\* consumed; a projectile that leaves the play range without hitting
\* anything changes neither score nor streak.
C30_WrongColourAndStrayShots ==
    [][(glast'.op = "update" /\ variant = "colour") =>
        LET fresh == {k \in 1..Len(namePopups') : namePopups'[k].lifetime = PopupLifetime}
            flying == {i \in 1..Len(projectiles) : projectiles[i].alive}
            flyingOn == {i \in 1..Len(projectiles') : projectiles'[i].alive}
        IN  /\ (glast'.hits = 0 /\ glast'.wrong > 0) => (score' = score /\ streak' = 0)
            /\ (glast'.hits = 0 /\ glast'.wrong = 0) => (score' = score /\ streak' = streak)
            /\ Cardinality(fresh) = glast'.hits + glast'.wrong
            /\ \A k \in fresh : ~targets'[namePopups'[k].player].alive
            /\ ~glast'.over =>
                /\ Len(projectiles') = Len(projectiles)
                /\ flyingOn \subseteq flying
                /\ Cardinality(flying \ flyingOn) = glast'.hits + glast'.wrong + glast'.left
                /\ \A i \in flying \ flyingOn : projectiles'[i].mesh \notin scene'
                /\ \A i \in flyingOn : projectiles'[i].mesh \in scene'
            /\ glast'.hits + glast'.wrong = 0 =>
                \A i \in 1..Len(targets) :
                    (targets[i].alive /\ ~targets'[i].alive) => targets'[i].pos[3] > PassZ
      ]_vars

\* After a hit of the right colour, the second projectile has met a target
\* of the other colour: the point scored is kept, the streak is gone, and
\* both targets and both projectiles are out of the scene.
C30_Witness ==
    /\ variant = "colour"
    /\ glast.op = "update"
    /\ glast.wrong = 1
    /\ glast.hits = 0
    /\ ~glast.over
    /\ score = 1
    /\ streak = 0
    /\ Len(projectiles) = 2
    /\ \A i \in 1..Len(projectiles) :
        ~projectiles[i].alive /\ projectiles[i].mesh \notin scene
    /\ \A i \in 1..Len(targets) : ~targets[i].alive /\ targets[i].mesh \notin scene

\* C31: in a tick of the colour revision every hit pairs one projectile that
\* was alive with one target that was alive, no projectile and no target is
\* in two pairs, the projectile of a pair is dead and out of the scene
\* afterwards and so is its target; a projectile that was dead before the
\* tick is neither moved nor paired; a projectile that stays alive is within
\* the play range, and one that dies unpaired has left it.
C31_OneTargetPerProjectile ==
    [][(glast'.op = "update" /\ variant = "colour") =>
        LET c == glast'.credits
            paired == {a[1] : a \in c}
        IN  /\ \A a, b \in c : (a[1] = b[1]) <=> (a[2] = b[2])
            /\ Cardinality(c) = glast'.hits + glast'.wrong
            /\ paired \subseteq {i \in 1..Len(projectiles) : projectiles[i].alive}
            /\ \A a \in c :
                /\ a[2] \in 1..Len(targets')
                /\ a[2] \in 1..Len(targets) => targets[a[2]].alive
                /\ ~targets'[a[2]].alive
                /\ projectiles[a[1]].mesh \notin scene'
            /\ ~glast'.over =>
                \A i \in 1..Len(projectiles) :
                    /\ ~projectiles[i].alive => projectiles'[i] = projectiles[i]
                    /\ i \in paired => ~projectiles'[i].alive
                    /\ projectiles'[i].alive =>
                        (-FarZ <= projectiles'[i].pos[3] /\ projectiles'[i].pos[3] <= NearZ)
                    /\ (projectiles[i].alive /\ ~projectiles'[i].alive /\ i \notin paired) =>
                        (projectiles'[i].pos[3] < -FarZ \/ projectiles'[i].pos[3] > NearZ)
      ]_vars

\* Two projectiles in flight have each met a target in the same tick: two
\* pairs, of different projectiles and different targets.
C31_Witness ==
    /\ variant = "colour"
    /\ glast.op = "update"
    /\ ~glast.over
    /\ Cardinality(glast.credits) = 2
    /\ Len(projectiles) = 2
    /\ \A i \in 1..Len(projectiles) : ~projectiles[i].alive

\* C32: a step taken while isPlaying is false either leaves the rail, the
\* target pool, the projectiles, the score and the streak as they are (a
\* tick), or is the start of a session: isPlaying becomes true with no
\* projectile, no target, a rail at 0 and a score of 0.  So a step that
\* adds a projectile, scores, moves the rail or advances the pool within a
\* session starts from a state where isPlaying is true.
C32_IdleUntilStarted ==
    [][~isPlaying =>
        \/ /\ ~isPlaying'
           /\ UNCHANGED <<targets, namePopups, spawnTimer, playerIndex, gameTime, scene,
                          progress, isFinished, projectiles, score, streak>>
           /\ glast'.hits + glast'.wrong + glast'.left = 0
        \/ /\ isPlaying'
           /\ glast'.op = "start"
           /\ glast'.hits + glast'.wrong + glast'.left = 0
           /\ projectiles' = <<>>
           /\ targets' = <<>>
           /\ namePopups' = <<>>
           /\ spawnTimer' = 0
           /\ playerIndex' = 0
           /\ gameTime' = 0
           /\ progress' = 0
           /\ ~isFinished'
           /\ score' = 0
           /\ streak' = 0
      ]_vars

\* A tick has run after the end of a session: the targets of the session
\* are still in the array, the rail is still at its end.
C32_Witness ==
    /\ glast.op = "idle"
    /\ ~isPlaying
    /\ isFinished
    /\ progress = RailDuration
    /\ Len(targets) > 0

\* C33: the rail progress stays between 0 and the whole run, it decreases
\* only in the step that starts a session (where it returns to 0), the rail
\* is finished exactly when the progress is the whole run, a tick of a
\* session adds its delta to the progress up to the whole run, a tick that
\* finds the rail finished or finishes it ends the session in that tick, a
\* finished rail is changed by nothing but the start of a session, and every
\* session that runs comes to its end with the rail finished.
C33_EverySessionEnds ==
    /\ [][/\ progress' \in 0..RailDuration
          /\ isFinished' <=> progress' = RailDuration
          /\ progress' < progress => (~isPlaying /\ isPlaying' /\ progress' = 0)
          /\ glast'.op = "update" =>
              /\ progress' = Min(progress + last'.delta * RailSpeed, RailDuration)
              /\ isFinished' => (~isPlaying' /\ glast'.over)
              /\ ~isFinished' => (isPlaying' /\ ~glast'.over)
          /\ (isFinished /\ ~(~isPlaying /\ isPlaying')) =>
              UNCHANGED <<progress, isFinished>>
         ]_vars
    /\ (isPlaying ~> (~isPlaying /\ isFinished /\ progress = RailDuration))

\* A session has ended on the tick that took the rail past its end, and
\* the targets of the session have all been retired before.
C33_Witness ==
    /\ glast.op = "update"
    /\ glast.over
    /\ ~isPlaying
    /\ isFinished
    /\ progress = RailDuration
    /\ playerIndex = Len(players)
    /\ Len(targets) > 0
    /\ \A i \in 1..Len(targets) : ~targets[i].alive

\* C34: the promise of fetchTopPlayers is never rejected; the pages asked
\* for are 1, 2, ... in this order, one request at a time, and none is
\* asked for once count players are collected; a result reached without a
\* failure holds at most count players, all of them from the pages
\* answered; and once a page request has failed, returned a status that is
\* not OK or a body that cannot be read, the result is the bundled list,
\* whatever had been collected.
C34_FetchNeverRejects ==
    /\ fetch.state # "rejected"
    /\ \A i \in 1..Len(fetch.requested) : fetch.requested[i] = i
    /\ Len(fetch.requested) <= fetch.pages
    /\ fetch.state \in {"fetching", "waiting"} =>
        /\ Len(fetch.players) < fetch.count
        /\ fetch.page = Len(fetch.requested)
        /\ ~fetch.failed
    /\ (fetch.state = "resolved" /\ ~fetch.failed) =>
        /\ fetch.result = fetch.players
        /\ Len(fetch.result) <= fetch.count
        /\ \A i \in 1..Len(fetch.result) : fetch.result[i] > 0
    /\ fetch.failed =>
        /\ fetch.state = "resolved"
        /\ fetch.result = GetSamplePlayers

\* The second page request has failed after the first page had given
\* perPage players: the result is the bundled list.
C34_Witness ==
    /\ fetch.state = "resolved"
    /\ fetch.failed
    /\ fetch.requested = <<1, 2>>
    /\ Len(fetch.players) >= PerPage
    /\ fetch.result = GetSamplePlayers

\* C35: at most one frame callback of the ticker is pending at any time.
C35_OneFramePending ==
    rafs <= 1

\* C37: in the last tick every callback that was subscribed when the tick
\* began and is still subscribed after it was invoked exactly once, and the
\* callbacks invoked were called in the order of their subscription.
C37_EverySubscriberInvoked ==
    LET subscribed == {lastTick.before[i] : i \in 1..Len(lastTick.before)}
        remaining == {lastTick.after[i] : i \in 1..Len(lastTick.after)}
        calls(callback) == {k \in 1..Len(lastTick.invoked) : lastTick.invoked[k] = callback}
    IN  /\ \A callback \in subscribed \cap remaining : Cardinality(calls(callback)) = 1
        /\ \A k, l \in 1..Len(lastTick.invoked) :
                k < l => IndexOf(lastTick.before, lastTick.invoked[k])
                             < IndexOf(lastTick.before, lastTick.invoked[l])

\* C36: the session clock read at the creation of a target (its spawnTime)
\* is at least one spawn interval for the first target of a session and at
\* least one spawn interval later than that of the target created before
\* it; start() creates no target, and an update that creates one has
\* stamped it with the session clock, the delta of the call included.
C36_IntervalBetweenCreations ==
    /\ \A k \in 1..Len(targets) :
           targets[k].spawnTime >=
               (IF k = 1 THEN 0 ELSE targets[k - 1].spawnTime) + SpawnInterval
    /\ last.op = "start" => targets = <<>>
    /\ (last.op = "update" /\ last.created > 0) =>
           /\ last.created = 1
           /\ targets[Len(targets)].spawnTime = gameTime
           /\ spawnTimer = 0
    /\ (last.op = "update" /\ last.created = 0) =>
           \A k \in 1..Len(targets) : targets[k].spawnTime < gameTime

\* Two targets have been created by two updates in a row.
C36_Witness ==
    /\ last.op = "update"
    /\ last.created = 1
    /\ Len(targets) = 2
    /\ targets[1].spawnTime >= SpawnInterval
    /\ targets[2].spawnTime = gameTime

\* C38: the targets array holds one target for every player the cursor has
\* passed, the alive ones among them are at most that many, and the cursor
\* is at most the number of players; a step that is not a start() keeps
\* every target of the array at its index, dead ones staying dead, and the
\* only step that shortens the array is start(), which empties it and
\* puts the cursor back to 0.
C38_TargetsOnlyGrow ==
    /\ [](/\ Len(targets) = playerIndex
          /\ Cardinality(AliveTargets(Pool)) <= playerIndex
          /\ playerIndex <= Len(players))
    /\ [][/\ Len(targets') < Len(targets) =>
               (last'.op = "start" /\ targets' = <<>> /\ playerIndex' = 0)
          /\ last'.op # "start" =>
               \A k \in 1..Len(targets) :
                   /\ targets'[k].mesh = targets[k].mesh
                   /\ targets'[k].player = targets[k].player
                   /\ ~targets[k].alive => ~targets'[k].alive
         ]_vars

====
